---- MODULE Spec2Model ----
(***************************************************************************)
(* CoreService of the squad widget (src/scripts/coreService.js): the       *)
(* in-memory store BattleStats / PlayersInfo, the reconciliation of server *)
(* snapshots (handleServerData), the game-event handlers that mutate the   *)
(* store, and the memoized aggregate queries over it; and handleServerData *)
(* of the history view's CoreService (src/unnamed/part_000).               *)
(*                                                                         *)
(* Representation.                                                         *)
(*  - A JavaScript object used as a map with non-index string keys is      *)
(*    enumerated in insertion order.  BattleStats is therefore a sequence  *)
(*    of entries [id, battle] (what Object.entries returns); arena ids are *)
(*    arenaUniqueID values, far above 2^32, so they are never array-index  *)
(*    keys.  A battle's players and PlayersInfo are functions on a subset  *)
(*    of PlayerIds.                                                        *)
(*  - A missing / wrong-typed numeric field of a server DTO is the empty   *)
(*    set, a present one the singleton of its value (typeof x === 'number')*)
(*  - A missing, null or empty string is "" (all of them are falsy for the *)
(*    a || b chains of the code).                                          *)
(*  - Timestamps are symbolic strings; Date.now() is a choice from DateNow.*)
(***************************************************************************)
EXTENDS Integers, Sequences, FiniteSets, TLC

\* ------------------------------------------------------------------ bounds
MaxPushes == 2        \* server snapshots received in one run
MaxDamage == 1        \* cap of a player's locally accumulated damage
MaxKills == 1         \* cap of a player's locally accumulated kills
MaxDuration == 1      \* largest battle duration a snapshot or a result carries
MaxSnapStat == 1      \* largest damage / kills value a snapshot carries
MaxSnapPoints == 1    \* largest explicit points value a snapshot carries
MaxSaves == 2         \* saveToServer invocations of one run
MaxNotices == 2       \* statsUpdated notifications of one run
MaxOps == 2           \* operations of the BattleDataManager completed in one run
MaxPending == 3       \* serverDataDebounced calls and random delays pending at once

\* ---------------------------------------------------- GAME_POINTS constants
POINTS_PER_DAMAGE == 1
POINTS_PER_FRAG == 2
POINTS_PER_TEAM_WIN == 3

\* ------------------------------------------------------------ value domains
ArenaIds == {"a", "b"}
PlayerIds == {"1", "2"}
LiveArena == "a"                   \* the arena the game events of a run are about;
                                   \* the other arena is known from snapshots only
SdkPlayerId == "1"                 \* sdk.data.player.id.value
SdkPlayerName == "Me"              \* sdk.data.player.name.value
DateNow == {"now1", "now2"}        \* values Date.now() may return
Clock == {"now1"}                  \* what Date.now() returns while the handlers run;
                                   \* the claims re-apply handlers at any time of DateNow
UnknownMap == "Unknown Map"
UnknownPlayer == "Unknown Player"
UnknownVehicle == "Unknown Vehicle"
NoArena == "null"                  \* curentArenaId === null
NoPlayer == "null"                 \* curentPlayerId === null

\* ---------------------------------------------------------- JS expressions
\* a || b on strings
Or(a, b) == IF a # "" THEN a ELSE b

\* typeof x === 'number': an optional field is {} when missing, {v} when it is
\* the number v, and a set of two elements when it holds a value of another type
IsNumber(x) == Cardinality(x) = 1

\* typeof x === 'number' ? x : 0   (also x ?? 0 for a field that is a number or missing)
NumOrZero(x) == IF IsNumber(x) THEN CHOOSE v \in x : TRUE ELSE 0

\* (variant: the two values are added instead of compared)
MathSum(a, b) == a + b

\* Math.max(a, b)
MathMax(a, b) == IF a >= b THEN a ELSE b

\* ---------------------------------------------------- object-as-map helpers
\* Object.keys(bs)
Keys(bs) == [i \in 1..Len(bs) |-> bs[i].id]
KeySet(bs) == {bs[i].id : i \in 1..Len(bs)}
\* bs[id]  (only used where id is a key)
Get(bs, id) == bs[CHOOSE i \in 1..Len(bs) : bs[i].id = id].battle
\* bs[id] = battle : an existing key keeps its position, a new key goes last
Put(bs, id, battle) ==
    IF id \in KeySet(bs)
    THEN [i \in 1..Len(bs) |-> IF bs[i].id = id THEN [id |-> id, battle |-> battle] ELSE bs[i]]
    ELSE Append(bs, [id |-> id, battle |-> battle])
\* pi?.[pid], "" when there is no such key
Lookup(pi, pid) == IF pid \in DOMAIN pi THEN pi[pid] ELSE ""
\* the function f with f[k] = v added or overwritten
Assign(f, k, v) == [x \in DOMAIN f \cup {k} |-> IF x = k THEN v ELSE f[x]]

EmptyMap == [x \in {} |-> ""]

RECURSIVE SumOver(_, _)
\* sum of g[x] for x in the finite set dom
SumOver(g, dom) ==
    IF dom = {} THEN 0
    ELSE LET x == CHOOSE y \in dom : TRUE IN g[x] + SumOver(g, dom \ {x})

\* ------------------------------------------------------ server snapshot DTOs
\* An optional numeric field: missing ({}) or a number in lo..hi
NumOpt(lo, hi) == {{}} \cup {{v} : v \in lo..hi}

NoPlayers == [x \in {} |-> 0]
BarePlayer == [name |-> "", damage |-> {}, kills |-> {}, points |-> {}, vehicle |-> ""]
BareBattle == [startTime |-> "", duration |-> {}, win |-> {}, mapName |-> "", players |-> NoPlayers]

\* PlayerDTO {name?, damage?, kills?, points?, vehicle?}: the numeric fields vary
PlayerNumDTOs ==
    {[BarePlayer EXCEPT !.damage = d, !.kills = k, !.points = p] :
        d \in NumOpt(1, MaxSnapStat), k \in NumOpt(1, MaxSnapStat), p \in NumOpt(0, MaxSnapPoints)}
\* PlayerDTO: the string fields vary
PlayerStrDTOs ==
    {[BarePlayer EXCEPT !.name = n, !.vehicle = v] : n \in {"", "Srv"}, v \in {"", "SrvTank"}}
\* a record wrapped in an envelope {_id: record}
Wrapped(S) == {[_id |-> x] : x \in S}
PlayerDTOs == PlayerNumDTOs \cup PlayerStrDTOs \cup Wrapped(PlayerStrDTOs \ {BarePlayer})

\* BattleDTO {startTime?, duration?, win?, mapName?, players}
BattleNumDTOs ==
    {[BareBattle EXCEPT !.duration = d, !.win = w] :
        d \in NumOpt(1, MaxDuration), w \in {{}, {0}, {1}}}
BattleStrDTOs ==
    {[BareBattle EXCEPT !.mapName = m, !.startTime = t] :
        m \in {"", "SrvMap", "SrvMap2"}, t \in {"", "t0"}}
\* a battle that mentions player pid alone, with record p
OnePlayer(pid, p) == [BareBattle EXCEPT !.players = [x \in {pid} |-> p]]
BattlePlayerDTOs ==
    {OnePlayer("1", p) : p \in PlayerDTOs}
        \cup {OnePlayer("2", p) : p \in {BarePlayer, [BarePlayer EXCEPT !.damage = {1}]}}
        \cup {[BareBattle EXCEPT !.players = [x \in PlayerIds |-> BarePlayer]]}
BattleDTOs ==
    BattleNumDTOs \cup BattleStrDTOs \cup BattlePlayerDTOs
        \cup Wrapped({[BareBattle EXCEPT !.win = {1}, !.mapName = "SrvMap"]})
\* the few records snapshots carry for the second arena
FewBattleDTOs ==
    {BareBattle, [BareBattle EXCEPT !.win = {0}], [BareBattle EXCEPT !.win = {1}],
     OnePlayer("1", BarePlayer)}

\* PlayerInfo of a snapshot: playerId -> name | {_id: name}; a plain string
\* name n is written [str |-> n]
PlayerInfoDTOs ==
    {EmptyMap, [x \in {"1"} |-> [str |-> "Srv"]], [x \in {"2"} |-> [_id |-> "Srv"]],
     [x \in PlayerIds |-> [_id |-> "Srv"]]}

\* the data object handed to handleServerData; a missing BattleStats is <<>>
\* (the merge of an empty BattleStats rebuilds the store as it is)
Snapshot(ok, bs, hasPi, pi) ==
    [success |-> ok, BattleStats |-> bs, hasPlayerInfo |-> hasPi, PlayerInfo |-> pi]
\* snapshots that mention one arena, and snapshots that mention both
OneArena ==
    {<<[id |-> "a", battle |-> b]>> : b \in BattleDTOs}
        \cup {<<[id |-> "b", battle |-> b]>> : b \in FewBattleDTOs}
TwoArenas ==
    {<<[id |-> pr[1], battle |-> [BareBattle EXCEPT !.win = {1}]],
       [id |-> pr[2], battle |-> [BareBattle EXCEPT !.win = {0}]]>> :
        pr \in {q \in ArenaIds \X ArenaIds : q[1] # q[2]}}
\* the snapshots that arrive while game events are handled
LiveSnapshots ==
    {Snapshot(TRUE, <<[id |-> a, battle |-> [BareBattle EXCEPT !.win = {w}]]>>, FALSE, EmptyMap) :
        a \in ArenaIds, w \in {0, 1}}
        \cup {Snapshot(TRUE, <<[id |-> LiveArena,
                                 battle |-> OnePlayer(SdkPlayerId, [BarePlayer EXCEPT !.damage = {1}])]>>,
                       TRUE, [x \in {SdkPlayerId} |-> [_id |-> "Srv"]])}
        \cup {Snapshot(TRUE, <<>>, TRUE, EmptyMap)}
Snapshots ==
    {Snapshot(TRUE, bs, FALSE, EmptyMap) : bs \in OneArena \cup TwoArenas}
        \cup {Snapshot(TRUE, <<>>, TRUE, pi) : pi \in PlayerInfoDTOs}
        \cup {Snapshot(FALSE, <<[id |-> "a", battle |-> [BareBattle EXCEPT !.win = {1}]]>>,
                       TRUE, [x \in {"2"} |-> [str |-> "Srv"]])}

\* ------------------------------------------------------ malformed snapshots
\* an entry of BattleStats or of players that is null
NullEntry == [isNull |-> TRUE]
IsNull(x) == "isNull" \in DOMAIN x
\* a numeric field holding a string
NotANumber == {0, 1}

\* snapshots with null entries, missing fields and wrong-typed numeric fields
MalformedSnapshots ==
    {Snapshot(TRUE, <<[id |-> "a", battle |-> b]>>, FALSE, EmptyMap) :
        b \in {NullEntry, BareBattle, [BareBattle EXCEPT !.win = NotANumber],
               OnePlayer("1", NullEntry), OnePlayer("1", BarePlayer),
               OnePlayer("1", [BarePlayer EXCEPT !.damage = {1}, !.kills = {1}]),
               OnePlayer("1", [BarePlayer EXCEPT !.damage = NotANumber, !.kills = NotANumber,
                                                 !.points = NotANumber]),
               OnePlayer("2", [BarePlayer EXCEPT !.kills = {1}, !.points = NotANumber])}}

\* ------------------------------------------------------- handleServerData
\* (x && typeof x === 'object' && x._id) ? x._id : x
Unwrap(x) == IF "_id" \in DOMAIN x THEN x._id ELSE x

\* the loop over data.BattleStats throws a TypeError: battleData.duration is
\* read of a null battle, p.kills of a null player
EntriesThrow(battleStats) ==
    \E i \in 1..Len(battleStats) :
        LET battleData == Unwrap(battleStats[i].battle)
        IN \/ IsNull(battleData)
           \/ \E pid \in DOMAIN battleData.players : IsNull(Unwrap(battleData.players[pid]))

\* handleServerData(data) throws
HandleServerDataThrows(data) == data.success /\ EntriesThrow(data.BattleStats)

\* handleServerData(data) of part_000 throws
HandleServerDataHistoryThrows(data) ==
    (data.success \/ Len(data.BattleStats) > 0 \/ data.hasPlayerInfo)
        /\ EntriesThrow(data.BattleStats)

\* (variant: the snapshot's record replaces the local one instead of being merged)
NormalizePlayerOverwrite(bs, pi, arenaId, pid, playerData) ==
    LET p == Unwrap(playerData)
        kills == NumOrZero(p.kills)
        damage == NumOrZero(p.damage)
    IN  [name |-> Or(p.name, Or(Lookup(pi, pid), UnknownPlayer)),
         damage |-> damage,
         kills |-> kills,
         points |-> IF IsNumber(p.points) THEN NumOrZero(p.points) ELSE damage + kills * POINTS_PER_FRAG,
         vehicle |-> Or(p.vehicle, UnknownVehicle)]

\* one entry of the inner forEach: the record stored for player pid of arena arenaId
NormalizePlayer(bs, pi, arenaId, pid, playerData) ==
    LET p == Unwrap(playerData)
        kills == NumOrZero(p.kills)
        damage == NumOrZero(p.damage)
        points == IF IsNumber(p.points) THEN NumOrZero(p.points)
                  ELSE damage + kills * POINTS_PER_FRAG
        hasExisting == arenaId \in KeySet(bs) /\ pid \in DOMAIN Get(bs, arenaId).players
    IN  IF hasExisting
        THEN LET existingPlayer == Get(bs, arenaId).players[pid]
             IN [name |-> Or(p.name, Or(existingPlayer.name, Or(Lookup(pi, pid), UnknownPlayer))),
                 damage |-> MathMax(damage, existingPlayer.damage),
                 kills |-> MathMax(kills, existingPlayer.kills),
                 points |-> MathMax(points, existingPlayer.points),
                 vehicle |-> Or(p.vehicle, Or(existingPlayer.vehicle, UnknownVehicle))]
        ELSE [name |-> Or(p.name, Or(Lookup(pi, pid), UnknownPlayer)),
              damage |-> damage,
              kills |-> kills,
              points |-> points,
              vehicle |-> Or(p.vehicle, UnknownVehicle)]

\* (variant: the snapshot's record is ignored and a fresh record stored)
NormalizeBattleFresh(bs, pi, arenaId, battle, now) ==
    [startTime |-> now, duration |-> 0, win |-> -1, mapName |-> UnknownMap,
     players |-> NoPlayers]

\* one entry of the outer forEach: normalized[arenaId]
NormalizeBattle(bs, pi, arenaId, battle, now) ==
    LET battleData == Unwrap(battle)
        rawPlayers == battleData.players
        players == [pid \in DOMAIN rawPlayers |->
                        NormalizePlayer(bs, pi, arenaId, pid, rawPlayers[pid])]
        hasExisting == arenaId \in KeySet(bs)
        localDuration == IF hasExisting THEN Get(bs, arenaId).duration ELSE 0
        serverDuration == NumOrZero(battleData.duration)
        localWin == IF hasExisting THEN Get(bs, arenaId).win ELSE -1
        serverWin == IF IsNumber(battleData.win) THEN NumOrZero(battleData.win) ELSE -1
        localMap == IF hasExisting THEN Get(bs, arenaId).mapName ELSE ""
        localStart == IF hasExisting THEN Get(bs, arenaId).startTime ELSE ""
    IN  [startTime |-> Or(battleData.startTime, Or(localStart, now)),
         duration |-> MathMax(localDuration, serverDuration),
         win |-> IF serverWin # -1 THEN serverWin ELSE localWin,
         mapName |-> IF localMap # "" /\ localMap # UnknownMap
                     THEN localMap ELSE Or(battleData.mapName, UnknownMap),
         players |-> players]

\* (variant: the snapshot replaces the store, no local entry is kept)
LocalOnlyDropped(bs, mentioned) == <<>>

\* the local entries the snapshot does not mention, in their local order
LocalOnly(bs, mentioned) == SelectSeq(bs, LAMBDA e : e.id \notin mentioned)

\* the new this.BattleStats: the snapshot's arenas in the snapshot's order, then
\* the local arenas it does not mention
NormalizedBattleStats(bs, pi, battleStats, now) ==
    [i \in 1..Len(battleStats) |->
        [id |-> battleStats[i].id,
         battle |-> NormalizeBattle(bs, pi, battleStats[i].id, battleStats[i].battle, now)]]
      \o LocalOnly(bs, KeySet(battleStats))

\* the new this.PlayersInfo
NormalizedPlayerInfo(playersInfo) ==
    [pid \in DOMAIN playersInfo |->
        IF "_id" \in DOMAIN playersInfo[pid] THEN playersInfo[pid]._id ELSE playersInfo[pid].str]

\* --------------------------------------------------------------------- state
VARIABLES
    BattleStats,        \* this.BattleStats: sequence of [id, battle] in enumeration order
    PlayersInfo,        \* this.PlayersInfo: playerId -> name
    calculationCache,   \* this.calculationCache, one map per key prefix
    curentArenaId,      \* this.curentArenaId (NoArena for null)
    curentPlayerId,     \* this.curentPlayerId (NoPlayer for null)
    curentVehicle,      \* this.curentVehicle ("" for null)
    pushes,             \* number of server snapshots handled so far
    lastOp,             \* history: whether a snapshot was handled last and, where it is
                        \* recorded, that snapshot and the store it was applied to
    swapped,            \* history: BattleStats had the last two recorded snapshots
                        \* arrived in the other order
    inserted,           \* arena ids in the order they first entered BattleStats
    sync,               \* the outbound synchronisation: the debounce timer of
                        \* serverDataDebounced, the socket, and the saveToServer
                        \* invocations with their callbacks in flight
    pull,               \* the server's statsUpdated notifications handled by
                        \* CoreService and the getStats requests they started
    manager,            \* the BattleDataManager of the history page
    tracker,            \* this.needToAddPlayers and this.isInPlatoon
    widget              \* the SquadWidget of the page and localStorage's accessKey

vars == <<BattleStats, PlayersInfo, calculationCache, curentArenaId, curentPlayerId,
          curentVehicle, pushes, lastOp, swapped, inserted, sync, pull, manager,
          tracker, widget>>

NoData == Snapshot(FALSE, <<>>, FALSE, EmptyMap)
Op(name) == [op |-> name, data |-> NoData, before |-> <<>>, beforeInfo |-> EmptyMap]

\* ---------------------------------------------------------- cache (Map)
\* initializeCache / clearCalculationCache: an empty Map.  Keys are
\* `team_<n>`, `bestWorst_<sorted ids>_<n>`, `battle_<arenaId>`, `player_<pid>_<n>`.
EmptyCache ==
    [team |-> [n \in {} |-> 0], bestWorst |-> [s \in {} |-> 0],
     battle |-> [a \in {} |-> 0], player |-> [k \in {} |-> 0]]

\* (variant: the cache is left as it is)
ClearCalculationCacheSkipped(cache) == cache

\* clearCalculationCache: this.calculationCache.clear()
ClearCalculationCache(cache) == EmptyCache

\* (variant: the bestWorst_ keys are left in the cache)
ClearBestWorstCacheSkipped(cache) == cache

\* clearBestWorstCache: delete the keys starting with 'bestWorst_'
ClearBestWorstCache(cache) == [cache EXCEPT !.bestWorst = [s \in {} |-> 0]]

\* clearCurrentBattleCache: delete the keys starting with `battle_<curentArenaId>`,
\* 'player_' or 'total_' (no key starts with 'total_': the team keys are `team_<n>`)
ClearCurrentBattleCache(cache, arenaId) ==
    [cache EXCEPT !.battle = [a \in (DOMAIN cache.battle) \ {arenaId} |-> cache.battle[a]],
                  !.player = [k \in {} |-> 0]]

\* handleServerData(data) on the store (bs, pi, cache)
HandleServerData(bs, pi, cache, data, now) ==
    IF data.success
    THEN [BattleStats |-> NormalizedBattleStats(bs, pi, data.BattleStats, now),
          PlayersInfo |-> IF data.hasPlayerInfo THEN NormalizedPlayerInfo(data.PlayerInfo) ELSE pi,
          calculationCache |-> ClearBestWorstCache(cache)]
    ELSE [BattleStats |-> bs, PlayersInfo |-> pi, calculationCache |-> cache]

\* handleServerData(data) of the history view's CoreService: the same merge behind
\* the gate data.success || data.BattleStats || data.PlayerInfo, a missing
\* BattleStats or PlayerInfo read as {}
HandleServerDataHistory(bs, pi, cache, data, now) ==
    IF data.success \/ Len(data.BattleStats) > 0 \/ data.hasPlayerInfo
    THEN [BattleStats |-> NormalizedBattleStats(bs, pi, data.BattleStats, now),
          PlayersInfo |-> NormalizedPlayerInfo(IF data.hasPlayerInfo THEN data.PlayerInfo
                                               ELSE EmptyMap),
          calculationCache |-> ClearBestWorstCache(cache)]
    ELSE [BattleStats |-> bs, PlayersInfo |-> pi, calculationCache |-> cache]

\* ids that the new store holds and `inserted` does not yet list, in store order
NewlyInserted(bs, ins) == SelectSeq(Keys(bs), LAMBDA a : a \notin {ins[i] : i \in 1..Len(ins)})

\* ------------------------------------------------- outbound synchronisation
\* The synchronisation never writes the store, so the specifications about the
\* store leave it unobserved (observed = FALSE): there it stays as it is.
\*   timer     the debounce timer of serverDataDebounced is pending
\*   delays    handleBattleResult continuations waiting in Utils.getRandomDelay()
\*   hangar    handleHangarStatus continuations waiting in Utils.getRandomDelay()
\*   flights   the saveToServer invocations so far, each with its closure
\*   calls, bursts, atLast   history: serverDataDebounced calls coalesced into the
\*             pending timer, timers started, BattleStats after the last such call
SyncOff ==
    [observed |-> FALSE, hasKey |-> TRUE, connected |-> FALSE, timer |-> FALSE, delays |-> 0,
     hangar |-> 0, flights |-> <<>>, calls |-> 0, bursts |-> 0, atLast |-> <<>>]

\* this.serverDataDebounced(): Utils.debounce(serverData, DEBOUNCE_DELAY), trailing
\* edge: a call (re)starts the one timer; bs is the store the caller leaves behind
ServerDataDebounced(s, bs) ==
    IF ~s.observed THEN s
    ELSE [s EXCEPT !.timer = TRUE, !.calls = @ + 1,
                   !.bursts = IF s.timer THEN @ ELSE @ + 1, !.atLast = bs]

\* await Utils.getRandomDelay() in handleBattleResult: the rest of the handler
\* runs later
RandomDelay(s) == IF ~s.observed THEN s ELSE [s EXCEPT !.delays = @ + 1]
HangarDelay(s) == IF ~s.observed THEN s ELSE [s EXCEPT !.hangar = @ + 1]

\* ------------------------------------------------------------ tracker fields
\* resetState(): needToAddPlayers = true, isInPlatoon = false. The fields are
\* only read by handleHangarStatus, so the specifications without hangar
\* events leave them unobserved.
\*   seen   history: what the last handleHangarStatus found when it reached
\*          the squad-size guard (<<>> before that)
\*   asleep handleHangarStatus calls waiting in Utils.sleep(HANGAR_DELAY)
\*   overtaken history: how many of the sleeping calls were already asleep
\*          when the last arena event arrived (they wake first: one delay for all)
TrackerOff ==
    [observed |-> FALSE, needToAddPlayers |-> TRUE, isInPlatoon |-> FALSE, seen |-> <<>>,
     asleep |-> 0, overtaken |-> 0]
\* this.needToAddPlayers = v
\* an arena event arrives while tr.asleep hangar handlers sleep
ArenaOpened(tr) == IF tr.observed THEN [tr EXCEPT !.overtaken = tr.asleep] ELSE tr

NeedToAddPlayers(tr, v) == IF tr.observed THEN [tr EXCEPT !.needToAddPlayers = v] ELSE tr

\* ------------------------------------------------------------------- Init
\* resetState() and initializeCache() with nothing persisted
\* ------------------------------------------------ statsUpdated notifications
AccessKey == "own"                 \* what getAccessKey() returns when there is a key

\* the data of a statsUpdated notification: null, {}, {key: k}
Notices ==
    {[isNull |-> TRUE, key |-> ""], [isNull |-> FALSE, key |-> ""],
     [isNull |-> FALSE, key |-> AccessKey], [isNull |-> FALSE, key |-> "other"]}

\* (variant: any notification is taken for one's own)
KeyAccepted(data, accessKey) == ~data.isNull

\* data && data.key === accessKey
KeyMatches(data, accessKey) == ~data.isNull /\ data.key = accessKey

\* CoreService's side of the notifications:
\*   build     "coreService.js" | "part_000": which statsUpdated handler is installed
\*   log       the notifications handled, each with whether getStats was emitted
\*   pending   getStats requests whose callback has not run
\*   ui        one entry per getStats callback with status 200: whether the
\*             serialized PlayersInfo / BattleStats changed and whether
\*             eventsCore 'statsUpdated' was emitted
\*   thrown    getStats callbacks that ended in an exception nothing catches
\*   loading   the request of loadFromServer() that is in flight: "none",
\*             "socket" (getStats) or "rest" (loadViaREST's fetch)
\*   clears    the clearServerData() calls so far: the channel of each ("none": no
\*             access key, nothing sent), whether its answer is awaited, and the
\*             answer as received (status of the socket response; ok and success
\*             of the REST response) with whether the call threw
PullOff == [observed |-> FALSE, build |-> "coreService.js", log |-> <<>>, pending |-> 0,
            ui |-> <<>>, thrown |-> 0, loading |-> "none", clears |-> <<>>]

\* ------------------------------------------------------------ SquadWidget
\* The page of the widget:
\*   urlKey      window.location.search.substring(1) ("" when the URL has no key)
\*   earlier     localStorage's accessKey when the page was opened ("" for none)
\*   accessKey   localStorage's accessKey now ("" for none)
\*   at          where init() stands: "start", "fetch" (checkAccessKey awaits the
\*               response), "json" (it awaits response.json()), "end"
\*   outcome     how checkAccessKey ended ("" while it runs)
\*   hasAccess   what checkAccessKey returned: "none" while it runs
\*   coreService, uiService   the fields are assigned
\*   denied      showAccessDenied() was called
\*   loads       loadFromServer() calls made by initialize()
WidgetOpened(urlKey, earlier) ==
    [observed |-> TRUE, urlKey |-> urlKey, earlier |-> earlier, accessKey |-> earlier,
     at |-> "start", outcome |-> "", hasAccess |-> "none", coreService |-> FALSE,
     uiService |-> FALSE, denied |-> FALSE, loads |-> 0]
\* the widget left out of a run: CoreService is taken as constructed
WidgetOff == [WidgetOpened("", "") EXCEPT !.observed = FALSE, !.at = "end"]

\* ------------------------------------------------------- BattleDataManager
\* StateManager's saved state: nothing, or {BattleStats, PlayersInfo}
NothingSaved == [saved |-> FALSE, BattleStats |-> <<>>, PlayersInfo |-> EmptyMap]
Saved(bs, pi) == [saved |-> TRUE, BattleStats |-> bs, PlayersInfo |-> pi]

\* no operation of the manager is running
NoOp ==
    [name |-> "idle", stage |-> "none", input |-> <<>>, channel |-> "none", requests |-> 0,
     before |-> [BattleStats |-> <<>>, PlayersInfo |-> EmptyMap, persisted |-> NothingSaved]]

\* The BattleDataManager of the history page:
\*   BattleStats, PlayersInfo, dataLoadedFromServer   its fields
\*   persisted   what StateManager holds
\*   op          the asynchronous operation in progress: its name, its stage
\*               ("sent": the first request awaits its answer, "loading": the
\*               loadFromServer of refreshLocalData / forceLoadFromServer awaits
\*               its answer), its input, the channel of its first request, the
\*               requests it has issued, and the state it started from
\*   results     the operations completed, each with what its caller observes
\*   notices     the statsUpdated notifications handled, each with whether a
\*               reload was started
\*   thrown      handleServerData calls that threw
ManagerIdle ==
    [observed |-> TRUE, hasKey |-> TRUE, connected |-> TRUE, BattleStats |-> <<>>,
     PlayersInfo |-> EmptyMap, dataLoadedFromServer |-> FALSE, persisted |-> NothingSaved,
     op |-> NoOp, results |-> <<>>, notices |-> <<>>, thrown |-> 0]
\* the manager left out of a run
ManagerOff == [ManagerIdle EXCEPT !.observed = FALSE]

\* the store after a first load: one finished battle of the local player
LoadedBattle ==
    [startTime |-> "t0", duration |-> 1, win |-> 1, mapName |-> "SrvMap",
     players |-> [x \in {SdkPlayerId} |->
                    [name |-> "Srv", damage |-> 1, kills |-> 1, points |-> 1 + POINTS_PER_FRAG,
                     vehicle |-> "SrvTank"]]]
ManagerLoaded ==
    [ManagerIdle EXCEPT !.BattleStats = <<[id |-> "a", battle |-> LoadedBattle]>>,
                        !.PlayersInfo = [x \in {SdkPlayerId} |-> [_id |-> "Srv"]],
                        !.dataLoadedFromServer = TRUE,
                        !.persisted = Saved(<<[id |-> "a", battle |-> LoadedBattle]>>,
                                            [x \in {SdkPlayerId} |-> [_id |-> "Srv"]])]

\* validatePlayerData(playerData): every required field is there with its type
\* (a missing string is "", a missing number {})
ValidatePlayerData(playerData) ==
    /\ playerData.name # ""
    /\ playerData.damage # {}
    /\ playerData.kills # {}
    /\ playerData.points # {}
    /\ playerData.vehicle # ""

\* validateBattleData(battleData)
ValidateBattleData(battleData) ==
    /\ battleData.startTime # ""
    /\ battleData.duration # {}
    /\ battleData.win # {}
    /\ battleData.mapName # ""
    /\ \A pid \in DOMAIN battleData.players : ValidatePlayerData(battleData.players[pid])

\* a payload every battle and player record of which passes validation
IsValidImportDataStrict(data) ==
    data.isObject /\ \A i \in 1..Len(data.BattleStats) : ValidateBattleData(data.BattleStats[i].battle)

\* isValidImportData(data): data && typeof data === 'object'
IsValidImportData(data) == data.isObject

\* import payloads: null, or an exported BattleStats object
FullPlayer == [name |-> "Srv", damage |-> {1}, kills |-> {1}, points |-> {1}, vehicle |-> "SrvTank"]
FullBattle(players) ==
    [startTime |-> "t0", duration |-> {1}, win |-> {1}, mapName |-> "SrvMap", players |-> players]
ImportPayloads ==
    {[isObject |-> FALSE, BattleStats |-> <<>>],
     [isObject |-> TRUE, BattleStats |-> <<>>],
     [isObject |-> TRUE,
      BattleStats |-> <<[id |-> "b", battle |-> FullBattle([x \in PlayerIds |-> FullPlayer])]>>],
     [isObject |-> TRUE,
      BattleStats |-> <<[id |-> "b", battle |-> FullBattle(
            [x \in PlayerIds |-> IF x = "2" THEN [FullPlayer EXCEPT !.vehicle = ""]
                                 ELSE FullPlayer])]>>],
     [isObject |-> TRUE,
      BattleStats |-> <<[id |-> "b", battle |-> [FullBattle(NoPlayers) EXCEPT !.mapName = ""]]>>]}

\* BattleDataManager.handleServerData(data) throws a TypeError: battle.startTime
\* is read of a null battle, p.kills of a null player (no _id envelope is opened)
ManagerHandleServerDataThrows(data) ==
    /\ data.success
    /\ \E i \in 1..Len(data.BattleStats) :
          LET battle == data.BattleStats[i].battle
          IN \/ IsNull(battle)
             \/ \E pid \in DOMAIN battle.players : IsNull(battle.players[pid])

\* BattleDataManager.handleServerData(data): the store is replaced by the
\* normalized snapshot
ManagerHandleServerData(m, data, now) ==
    IF data.success
    THEN LET bs == [i \in 1..Len(data.BattleStats) |->
                     LET battle == data.BattleStats[i].battle
                     IN [id |-> data.BattleStats[i].id,
                         battle |-> [startTime |-> Or(battle.startTime, now),
                                     duration |-> NumOrZero(battle.duration),
                                     win |-> IF IsNumber(battle.win) THEN NumOrZero(battle.win) ELSE -1,
                                     mapName |-> Or(battle.mapName, UnknownMap),
                                     players |-> [pid \in DOMAIN battle.players |->
                                        LET q == battle.players[pid]
                                            kills == NumOrZero(q.kills)
                                            damage == NumOrZero(q.damage)
                                        IN [name |-> Or(q.name, UnknownPlayer),
                                            damage |-> damage,
                                            kills |-> kills,
                                            points |-> IF IsNumber(q.points) THEN NumOrZero(q.points)
                                                       ELSE damage + kills * POINTS_PER_FRAG,
                                            vehicle |-> Or(q.vehicle, UnknownVehicle)]]]]]
             pi == IF data.hasPlayerInfo THEN data.PlayerInfo ELSE EmptyMap
         IN [m EXCEPT !.BattleStats = bs, !.PlayersInfo = pi, !.dataLoadedFromServer = TRUE,
                      !.persisted = Saved(bs, pi)]
    ELSE m

Init ==
    /\ BattleStats = <<>>
    /\ PlayersInfo = EmptyMap
    /\ calculationCache = EmptyCache
    /\ curentArenaId = NoArena
    /\ curentPlayerId = SdkPlayerId
    /\ curentVehicle = ""
    /\ pushes = 0
    /\ lastOp = Op("event")
    /\ swapped = <<>>
    /\ inserted = <<>>
    /\ sync = SyncOff
    /\ pull = PullOff
    /\ manager = ManagerOff
    /\ tracker = TrackerOff
    /\ widget = WidgetOff

\* ---------------------------------------- a getStats response / loadViaREST
\* handleServerData(response.body); clearCalculationCache()
\* record says whether the history variables keep this snapshot
ServerPush(data, now, record) ==
    /\ pushes < MaxPushes
    /\ LET r == HandleServerData(BattleStats, PlayersInfo, calculationCache, data, now)
       IN /\ BattleStats' = r.BattleStats
          /\ PlayersInfo' = r.PlayersInfo
          /\ inserted' = inserted \o NewlyInserted(r.BattleStats, inserted)
          /\ swapped' =
                IF record /\ lastOp.op = "reconcile"
                THEN LET first == HandleServerData(lastOp.before, lastOp.beforeInfo,
                                                   EmptyCache, data, now)
                     IN HandleServerData(first.BattleStats, first.PlayersInfo, EmptyCache,
                                         lastOp.data, now).BattleStats
                ELSE IF record THEN r.BattleStats ELSE <<>>
    /\ calculationCache' = ClearCalculationCache(calculationCache)
    /\ pushes' = pushes + 1
    /\ lastOp' = IF record
                 THEN [op |-> "reconcile", data |-> data, before |-> BattleStats,
                       beforeInfo |-> PlayersInfo]
                 ELSE Op("event")
    /\ UNCHANGED <<curentArenaId, curentPlayerId, curentVehicle, sync, pull, manager, tracker,
                   widget>>

\* ------------------------------------------------------ initializeBattleStats
InitializeBattleStats(bs, pi, arenaId, playerId, curPlayer, vehicle, now) ==
    LET bs1 == IF arenaId \in KeySet(bs) THEN bs
               ELSE Put(bs, arenaId, [startTime |-> now, duration |-> 0, win |-> -1,
                                      mapName |-> UnknownMap, players |-> NoPlayers])
        b == Get(bs1, arenaId)
        missing == playerId \notin DOMAIN b.players
        pi1 == IF missing /\ Lookup(pi, playerId) = "" /\ playerId = curPlayer
               THEN Assign(pi, playerId, Or(SdkPlayerName, UnknownPlayer)) ELSE pi
        rec == [name |-> Or(Lookup(pi1, playerId), UnknownPlayer), damage |-> 0, kills |-> 0,
                points |-> 0, vehicle |-> Or(vehicle, UnknownVehicle)]
    IN  [BattleStats |-> IF missing
                         THEN Put(bs1, arenaId, [b EXCEPT !.players = Assign(b.players, playerId, rec)])
                         ELSE bs1,
         PlayersInfo |-> pi1]

\* (variant: every player counts as registered)
IsExistsPlayerRecordAlways(pi, playerId) == TRUE

\* isExistsPlayerRecord()
IsExistsPlayerRecord(pi, playerId) == playerId # NoPlayer /\ playerId \in DOMAIN pi

\* isValidBattleState()
IsValidBattleState == curentArenaId # NoArena /\ curentPlayerId # NoPlayer

\* ----------------------------------------------------------------- handleArena
\* arenaId is sdk.data.battle.arenaId.value, localizedName is arenaData.localizedName
HandleArena(arenaId, localizedName, now) ==
    /\ curentArenaId' = arenaId
    /\ lastOp' = Op("event")
    /\ swapped' = <<>>
    /\ IF arenaId = NoArena \/ curentPlayerId = NoPlayer
       THEN UNCHANGED <<BattleStats, PlayersInfo, calculationCache, inserted, sync>>
       ELSE LET r == InitializeBattleStats(BattleStats, PlayersInfo, arenaId, curentPlayerId,
                                           curentPlayerId, curentVehicle, now)
                b == Get(r.BattleStats, arenaId)
                me == [b.players[curentPlayerId] EXCEPT !.vehicle = curentVehicle,
                                                        !.name = SdkPlayerName]
                b1 == [b EXCEPT !.mapName = Or(localizedName, UnknownMap),
                                !.players = Assign(b.players, curentPlayerId, me)]
            IN /\ BattleStats' = Put(r.BattleStats, arenaId, b1)
               /\ PlayersInfo' = IF Lookup(r.PlayersInfo, curentPlayerId) = ""
                                 THEN Assign(r.PlayersInfo, curentPlayerId, SdkPlayerName)
                                 ELSE r.PlayersInfo
               /\ calculationCache' = ClearCurrentBattleCache(calculationCache, arenaId)
               /\ inserted' = inserted \o NewlyInserted(Put(r.BattleStats, arenaId, b1), inserted)
               /\ sync' = IF IsExistsPlayerRecord(PlayersInfo', curentPlayerId)
                          THEN ServerDataDebounced(sync, BattleStats') ELSE sync
    /\ tracker' = IF arenaId = NoArena THEN tracker ELSE ArenaOpened(tracker)
    /\ UNCHANGED <<curentPlayerId, curentVehicle, pushes, pull, manager, widget>>

\* ---------------------------------------------------------- handleHangarVehicle
HandleHangarVehicle(localizedShortName) ==
    /\ curentVehicle' = Or(localizedShortName, UnknownVehicle)
    /\ lastOp' = Op("event")
    /\ swapped' = <<>>
    /\ UNCHANGED <<BattleStats, PlayersInfo, calculationCache, curentArenaId, curentPlayerId,
                   pushes, inserted, sync, pull, manager, tracker, widget>>

\* ------------------------------------------------------------ handlePlayerDamage
\* the store after handlePlayerDamage({damage}) for a registered current player
PlayerDamage(bs, pi, arenaId, playerId, vehicle, damage, now) ==
    LET r == InitializeBattleStats(bs, pi, arenaId, playerId, playerId, vehicle, now)
        b == Get(r.BattleStats, arenaId)
        old == b.players[playerId]
        new == [old EXCEPT !.damage = old.damage + damage,
                           !.points = old.points + damage * POINTS_PER_DAMAGE]
    IN  [BattleStats |-> Put(r.BattleStats, arenaId,
                             [b EXCEPT !.players = Assign(b.players, playerId, new)]),
         PlayersInfo |-> r.PlayersInfo]

HandlePlayerDamage(damage, now) ==
    /\ IsValidBattleState
    /\ IsExistsPlayerRecord(PlayersInfo, curentPlayerId)
    /\ LET r == PlayerDamage(BattleStats, PlayersInfo, curentArenaId, curentPlayerId,
                             curentVehicle, damage, now)
       IN /\ Get(r.BattleStats, curentArenaId).players[curentPlayerId].damage <= MaxDamage
          /\ BattleStats' = r.BattleStats
          /\ PlayersInfo' = r.PlayersInfo
          /\ inserted' = inserted \o NewlyInserted(r.BattleStats, inserted)
    /\ calculationCache' = ClearCalculationCache(calculationCache)
    /\ sync' = ServerDataDebounced(sync, BattleStats')
    /\ lastOp' = Op("event")
    /\ swapped' = <<>>
    /\ UNCHANGED <<curentArenaId, curentPlayerId, curentVehicle, pushes, pull, manager, tracker,
                   widget>>

\* -------------------------------------------------------------- handlePlayerKill
PlayerKill(bs, pi, arenaId, playerId, vehicle, now) ==
    LET r == InitializeBattleStats(bs, pi, arenaId, playerId, playerId, vehicle, now)
        b == Get(r.BattleStats, arenaId)
        old == b.players[playerId]
        new == [old EXCEPT !.kills = old.kills + 1,
                           !.points = old.points + POINTS_PER_FRAG]
    IN  [BattleStats |-> Put(r.BattleStats, arenaId,
                             [b EXCEPT !.players = Assign(b.players, playerId, new)]),
         PlayersInfo |-> r.PlayersInfo]

HandlePlayerKill(now) ==
    /\ IsValidBattleState
    /\ IsExistsPlayerRecord(PlayersInfo, curentPlayerId)
    /\ LET r == PlayerKill(BattleStats, PlayersInfo, curentArenaId, curentPlayerId,
                           curentVehicle, now)
       IN /\ Get(r.BattleStats, curentArenaId).players[curentPlayerId].kills <= MaxKills
          /\ BattleStats' = r.BattleStats
          /\ PlayersInfo' = r.PlayersInfo
          /\ inserted' = inserted \o NewlyInserted(r.BattleStats, inserted)
    /\ calculationCache' = ClearCalculationCache(calculationCache)
    /\ sync' = ServerDataDebounced(sync, BattleStats')
    /\ lastOp' = Op("event")
    /\ swapped' = <<>>
    /\ UNCHANGED <<curentArenaId, curentPlayerId, curentVehicle, pushes, pull, manager, tracker,
                   widget>>

\* ------------------------------------------------------------ handleBattleResult
\* A battle result: arenaUniqueID, personal.avatar.accountDBID, players[id].team,
\* common.{winnerTeam, duration, arenaTag}, and the account's entry of vehicles
\* (hasVehicle, damageDealt, kills).
BaseResult(arenaId) ==
    [arenaUniqueID |-> arenaId, accountDBID |-> SdkPlayerId, team |-> 1, winnerTeam |-> 1,
     duration |-> 1, arenaTag |-> "", hasVehicle |-> TRUE, damageDealt |-> 0, kills |-> 0]
Results ==
    {[BaseResult(LiveArena) EXCEPT !.team = tw[1], !.winnerTeam = tw[2]] :
        tw \in {<<1, 1>>, <<1, 2>>, <<1, 0>>, <<0, 1>>}}
    \cup {[BaseResult(LiveArena) EXCEPT !.damageDealt = MaxDamage],
          [BaseResult(LiveArena) EXCEPT !.kills = MaxKills]}
    \cup {[BaseResult(LiveArena) EXCEPT !.hasVehicle = FALSE],
          [BaseResult(LiveArena) EXCEPT !.duration = MaxDuration, !.arenaTag = "tag"],
          BaseResult("b")}

\* (variant: a draw is not told from a defeat)
ResolveWinWithoutDraw(oldWin, playerTeam, winnerTeam) ==
    IF playerTeam # 0
    THEN IF playerTeam = winnerTeam THEN 1 ELSE 0
    ELSE oldWin

\* win after the team comparison
ResolveWin(oldWin, playerTeam, winnerTeam) ==
    IF playerTeam # 0
    THEN IF playerTeam = winnerTeam THEN 1
         ELSE IF winnerTeam = 0 THEN 2 ELSE 0
    ELSE oldWin

\* (variant: the reported values are merged by maximum with the accumulated ones)
BattleResultMaxMerge(b, result) ==
    LET pid == result.accountDBID
        b1 == [b EXCEPT !.duration = result.duration,
                        !.win = ResolveWin(b.win, result.team, result.winnerTeam)]
        max(x, y) == IF x >= y THEN x ELSE y
    IN  IF result.hasVehicle /\ pid \in DOMAIN b.players
        THEN [b1 EXCEPT !.players[pid].damage = max(@, result.damageDealt),
                        !.players[pid].kills = max(@, result.kills),
                        !.players[pid].points =
                            max(@, result.damageDealt + result.kills * POINTS_PER_FRAG)]
        ELSE b1

\* the battle record of result.arenaUniqueID after handleBattleResult(result)
BattleResult(b, result) ==
    LET pid == result.accountDBID
        b1 == [b EXCEPT !.duration = result.duration,
                        !.mapName = IF result.arenaTag # "" /\ (b.mapName = "" \/ b.mapName = UnknownMap)
                                    THEN result.arenaTag ELSE b.mapName,
                        !.win = ResolveWin(b.win, result.team, result.winnerTeam)]
    IN  IF result.hasVehicle /\ pid \in DOMAIN b.players
        THEN [b1 EXCEPT !.players[pid].damage = result.damageDealt,
                        !.players[pid].kills = result.kills,
                        !.players[pid].points = result.damageDealt + result.kills * POINTS_PER_FRAG]
        ELSE b1

HandleBattleResult(result) ==
    /\ curentPlayerId' = result.accountDBID
    /\ lastOp' = Op("event")
    /\ swapped' = <<>>
    /\ IF result.arenaUniqueID \notin KeySet(BattleStats)
       THEN UNCHANGED <<BattleStats, calculationCache, sync>>
       ELSE /\ BattleStats' = Put(BattleStats, result.arenaUniqueID,
                                  BattleResult(Get(BattleStats, result.arenaUniqueID), result))
            /\ calculationCache' = ClearBestWorstCache(calculationCache)
            /\ sync' = RandomDelay(sync)
    /\ tracker' = NeedToAddPlayers(tracker, FALSE)
    /\ UNCHANGED <<PlayersInfo, curentArenaId, curentVehicle, pushes, inserted, pull, manager,
                   widget>>

\* the continuation of handleBattleResult after Utils.getRandomDelay()
BattleResultResumes ==
    /\ sync.delays > 0
    /\ LET s == [sync EXCEPT !.delays = @ - 1]
       IN sync' = IF IsExistsPlayerRecord(PlayersInfo, curentPlayerId)
                  THEN ServerDataDebounced(s, BattleStats) ELSE s
    /\ UNCHANGED <<BattleStats, PlayersInfo, calculationCache, curentArenaId, curentPlayerId,
                   curentVehicle, pushes, lastOp, swapped, inserted, pull, manager, tracker,
                   widget>>

\* ----------------------------------------------------------- getCurrentBattleId
\* the first arena, in the order the store enumerates, whose duration is 0
GetCurrentBattleId(bs) ==
    LET open == {i \in 1..Len(bs) : bs[i].battle.duration = 0}
    IN  IF open = {} THEN NoArena
        ELSE bs[CHOOSE i \in open : \A j \in open : i <= j].id

\* ---------------------------------------------------------- handlePlatoonStatus
HandlePlatoonStatus(isInPlatoon) ==
    /\ tracker.observed
    /\ tracker.isInPlatoon # isInPlatoon
    /\ tracker' = [tracker EXCEPT !.isInPlatoon = isInPlatoon]
    /\ UNCHANGED <<BattleStats, PlayersInfo, calculationCache, curentArenaId, curentPlayerId,
                   curentVehicle, pushes, lastOp, swapped, inserted, sync, pull, manager, widget>>

\* ----------------------------------------------------------- handleHangarStatus
PlatoonThreshold == 3
\* getPlayersIds(): the numeric keys of PlayersInfo (every id of the model is numeric)
GetPlayersIds(pi) == DOMAIN pi

\* (variant: registration is never skipped)
SquadGuardAbsent(isInPlatoon, playersID) == FALSE

\* (isInPlatoon && playersID.length > 3) || (!isInPlatoon && playersID.length >= 1)
SquadGuard(isInPlatoon, playersID) ==
    \/ isInPlatoon /\ Cardinality(playersID) > PlatoonThreshold
    \/ ~isInPlatoon /\ Cardinality(playersID) >= 1

\* handleHangarStatus(isInHangar) up to the await of Utils.sleep(HANGAR_DELAY)
HandleHangarStatus(isInHangar) ==
    /\ tracker.observed
    /\ isInHangar
    /\ tracker.needToAddPlayers
    /\ tracker' = [tracker EXCEPT !.asleep = @ + 1]
    /\ UNCHANGED <<BattleStats, PlayersInfo, calculationCache, curentArenaId, curentPlayerId,
                   curentVehicle, pushes, lastOp, swapped, inserted, sync, pull, manager, widget>>

\* handleHangarStatus from the end of Utils.sleep(HANGAR_DELAY) to the await of
\* Utils.getRandomDelay()
HangarStatusWakes ==
    /\ tracker.asleep > 0
    /\ curentPlayerId' = SdkPlayerId
    /\ curentArenaId' = NoArena
    /\ LET playersID == GetPlayersIds(PlayersInfo)
           skip == SquadGuard(tracker.isInPlatoon, playersID)
           seen == [isInPlatoon |-> tracker.isInPlatoon,
                    tracked |-> Cardinality(playersID), registered |-> ~skip]
       IN /\ tracker' = [tracker EXCEPT !.asleep = @ - 1, !.seen = seen,
                                         !.overtaken = IF @ > 0 THEN @ - 1 ELSE 0]
          /\ PlayersInfo' = IF skip THEN PlayersInfo
                            ELSE Assign(PlayersInfo, SdkPlayerId, SdkPlayerName)
          /\ sync' = IF skip THEN sync ELSE HangarDelay(sync)
    /\ lastOp' = Op("event")
    /\ swapped' = <<>>
    /\ UNCHANGED <<BattleStats, calculationCache, curentVehicle, pushes, inserted, pull, manager,
                   widget>>

\* the continuation of handleHangarStatus after Utils.getRandomDelay()
HangarStatusResumes ==
    /\ sync.hangar > 0
    /\ sync' = ServerDataDebounced([sync EXCEPT !.hangar = @ - 1], BattleStats)
    /\ UNCHANGED <<BattleStats, PlayersInfo, calculationCache, curentArenaId, curentPlayerId,
                   curentVehicle, pushes, lastOp, swapped, inserted, pull, manager, tracker,
                   widget>>

\* ------------------------------------------- clearServerData, acknowledged
ClearServerData ==
    /\ BattleStats' = <<>>
    /\ PlayersInfo' = EmptyMap
    /\ calculationCache' = ClearCalculationCache(calculationCache)
    /\ inserted' = <<>>
    /\ lastOp' = Op("event")
    /\ swapped' = <<>>
    /\ UNCHANGED <<curentArenaId, curentPlayerId, curentVehicle, pushes, sync, pull, manager, tracker,
                   widget>>

\* ------------------------------------------- clearServerData and its answers
\* one clearServerData() call as pull.clears records it
ClearCall(channel) ==
    [channel |-> channel, state |-> IF channel = "none" THEN "returned" ELSE "waiting",
     status |-> 0, ok |-> FALSE, success |-> FALSE, threw |-> FALSE]

\* clearServerData() up to its first await: no key, nothing is sent; socket
\* connected, clearStats is emitted; otherwise the REST request is sent
ClearServerDataCall ==
    /\ pull.observed
    /\ Len(pull.clears) < MaxOps
    /\ pull' = [pull EXCEPT !.clears =
                    Append(@, ClearCall(IF ~sync.hasKey THEN "none"
                                        ELSE IF sync.connected THEN "socket" ELSE "rest"))]
    /\ UNCHANGED <<BattleStats, PlayersInfo, calculationCache, curentArenaId, curentPlayerId,
                   curentVehicle, pushes, lastOp, swapped, inserted, sync, manager, tracker,
                   widget>>

\* (variant: the callback does not look at the status)
ClearAcknowledgedAlways(status) == TRUE

\* response && response.status === 200
ClearAcknowledged(status) == status = 200

\* the callback of clearStats runs with response.status = status
ClearStatsReply(i, status) ==
    /\ i \in 1..Len(pull.clears)
    /\ pull.clears[i].channel = "socket" /\ pull.clears[i].state = "waiting"
    /\ pull' = [pull EXCEPT !.clears[i] = [@ EXCEPT !.state = "done", !.status = status]]
    /\ IF ClearAcknowledged(status)
       THEN /\ BattleStats' = <<>>
            /\ PlayersInfo' = EmptyMap
            /\ calculationCache' = ClearCalculationCache(calculationCache)
            /\ inserted' = <<>>
       ELSE UNCHANGED <<BattleStats, PlayersInfo, calculationCache, inserted>>
    /\ UNCHANGED <<curentArenaId, curentPlayerId, curentVehicle, pushes, lastOp, swapped, sync,
                   manager, tracker, widget>>

\* the REST request is answered: response.ok and, of its body, data.success;
\* ok = FALSE also stands for a fetch that rejects
ClearViaRESTReply(i, ok, success) ==
    /\ i \in 1..Len(pull.clears)
    /\ pull.clears[i].channel = "rest" /\ pull.clears[i].state = "waiting"
    /\ pull' = [pull EXCEPT !.clears[i] = [@ EXCEPT !.state = "done", !.ok = ok,
                                                    !.success = ok /\ success,
                                                    !.threw = ~(ok /\ success)]]
    /\ IF ok /\ success
       THEN /\ BattleStats' = <<>>
            /\ PlayersInfo' = EmptyMap
            /\ calculationCache' = ClearCalculationCache(calculationCache)
            /\ inserted' = <<>>
       ELSE UNCHANGED <<BattleStats, PlayersInfo, calculationCache, inserted>>
    /\ UNCHANGED <<curentArenaId, curentPlayerId, curentVehicle, pushes, lastOp, swapped, sync,
                   manager, tracker, widget>>

\* ---------------------------------------------------------- calculateBattlePoints
PlayerPoints(battle) == [pid \in DOMAIN battle.players |-> battle.players[pid].points]
PlayerDamages(battle) == [pid \in DOMAIN battle.players |-> battle.players[pid].damage]
PlayerKills(battle) == [pid \in DOMAIN battle.players |-> battle.players[pid].kills]

CalculateBattlePoints(battle) ==
    (IF battle.win = 1 THEN POINTS_PER_TEAM_WIN ELSE 0)
        + SumOver(PlayerPoints(battle), DOMAIN battle.players)

\* ------------------------------------------------------------- calculateTeamData
RECURSIVE TeamLoop(_, _, _)
\* the for-in loop over BattleStats from entry i on, acc the running totals
TeamLoop(bs, i, acc) ==
    IF i > Len(bs) THEN acc
    ELSE LET b == bs[i].battle
             won == b.win = 1
         IN TeamLoop(bs, i + 1,
                [teamPoints |-> acc.teamPoints + (IF won THEN POINTS_PER_TEAM_WIN ELSE 0)
                                    + SumOver(PlayerPoints(b), DOMAIN b.players),
                 teamDamage |-> acc.teamDamage + SumOver(PlayerDamages(b), DOMAIN b.players),
                 teamKills |-> acc.teamKills + SumOver(PlayerKills(b), DOMAIN b.players),
                 wins |-> acc.wins + (IF won THEN 1 ELSE 0),
                 battles |-> acc.battles + 1])

\* the result computed on a cache miss
ComputeTeamData(bs) ==
    TeamLoop(bs, 1, [teamPoints |-> 0, teamDamage |-> 0, teamKills |-> 0, wins |-> 0, battles |-> 0])

\* what calculateTeamData() returns in a store with this cache (key `team_<count>`)
TeamDataResult(bs, cache) ==
    IF Len(bs) \in DOMAIN cache.team THEN cache.team[Len(bs)] ELSE ComputeTeamData(bs)

CalculateTeamData ==
    /\ calculationCache' =
         [calculationCache EXCEPT !.team = Assign(calculationCache.team, Len(BattleStats),
                                                  TeamDataResult(BattleStats, calculationCache))]
    /\ UNCHANGED <<BattleStats, PlayersInfo, curentArenaId, curentPlayerId, curentVehicle,
                   pushes, lastOp, swapped, inserted, sync, pull, manager, tracker, widget>>

\* ----------------------------------------------------------- calculateBattleData
\* the result computed on a cache miss: the sums over the players of the arena,
\* zeros when the store has no such arena
ComputeBattleData(bs, arenaId) ==
    IF arenaId \in KeySet(bs)
    THEN LET b == Get(bs, arenaId)
         IN [battlePoints |-> SumOver(PlayerPoints(b), DOMAIN b.players),
             battleDamage |-> SumOver(PlayerDamages(b), DOMAIN b.players),
             battleKills |-> SumOver(PlayerKills(b), DOMAIN b.players)]
    ELSE [battlePoints |-> 0, battleDamage |-> 0, battleKills |-> 0]

\* what calculateBattleData(arenaId) returns (key `battle_<arenaId>`)
BattleDataResult(bs, cache, arenaId) ==
    IF arenaId \in DOMAIN cache.battle THEN cache.battle[arenaId]
    ELSE ComputeBattleData(bs, arenaId)

CalculateBattleData(arenaId) ==
    /\ calculationCache' =
         [calculationCache EXCEPT !.battle = Assign(calculationCache.battle, arenaId,
                                       BattleDataResult(BattleStats, calculationCache, arenaId))]
    /\ UNCHANGED <<BattleStats, PlayersInfo, curentArenaId, curentPlayerId, curentVehicle,
                   pushes, lastOp, swapped, inserted, sync, pull, manager, tracker, widget>>

\* ----------------------------------------------------------- calculatePlayerData
\* the result computed on a cache miss: the player's sums over every arena
ComputePlayerData(bs, playerId) ==
    LET of(f(_)) == SumOver([i \in 1..Len(bs) |->
                             IF playerId \in DOMAIN bs[i].battle.players
                             THEN f(bs[i].battle)[playerId] ELSE 0], 1..Len(bs))
    IN [playerPoints |-> of(PlayerPoints), playerDamage |-> of(PlayerDamages),
        playerKills |-> of(PlayerKills)]

\* what calculatePlayerData(playerId) returns (key `player_<playerId>_<count>`)
PlayerDataResult(bs, cache, playerId) ==
    IF <<playerId, Len(bs)>> \in DOMAIN cache.player THEN cache.player[<<playerId, Len(bs)>>]
    ELSE ComputePlayerData(bs, playerId)

CalculatePlayerData(playerId) ==
    /\ calculationCache' =
         [calculationCache EXCEPT !.player = Assign(calculationCache.player,
                                       <<playerId, Len(BattleStats)>>,
                                       PlayerDataResult(BattleStats, calculationCache, playerId))]
    /\ UNCHANGED <<BattleStats, PlayersInfo, curentArenaId, curentPlayerId, curentVehicle,
                   pushes, lastOp, swapped, inserted, sync, pull, manager, tracker, widget>>

\* -------------------------------------------------------- findBestAndWorstBattle
NullBestWorst == [found |-> FALSE, bestBattle |-> "", bestPoints |-> 0,
                  worstBattle |-> "", worstPoints |-> 0]

RECURSIVE BestWorstLoop(_, _, _)
\* completedBattles.forEach from entry i on
BestWorstLoop(completed, i, acc) ==
    IF i > Len(completed) THEN acc
    ELSE LET battlePoints == CalculateBattlePoints(completed[i].battle)
             acc1 == IF battlePoints < acc.worstPoints
                     THEN [acc EXCEPT !.worstBattle = completed[i].id, !.worstPoints = battlePoints]
                     ELSE acc
             acc2 == IF battlePoints > acc1.bestPoints
                     THEN [acc1 EXCEPT !.bestBattle = completed[i].id, !.bestPoints = battlePoints]
                     ELSE acc1
         IN BestWorstLoop(completed, i + 1, acc2)

\* (variant: undecided battles are scanned as well)
ComputeBestAndWorstOfAll(bs) ==
    IF Len(bs) = 0 THEN NullBestWorst
    ELSE BestWorstLoop(bs, 1,
             [found |-> TRUE, bestBattle |-> bs[1].id,
              bestPoints |-> CalculateBattlePoints(bs[1].battle),
              worstBattle |-> bs[1].id,
              worstPoints |-> CalculateBattlePoints(bs[1].battle)])

\* the result computed on a cache miss; a battle is reported by its id
ComputeBestAndWorst(bs) ==
    LET completedBattles == SelectSeq(bs, LAMBDA e : e.battle.win # -1)
    IN  IF Len(completedBattles) = 0 THEN NullBestWorst
        ELSE LET first == completedBattles[1]
                 points == CalculateBattlePoints(first.battle)
             IN BestWorstLoop(completedBattles, 1,
                    [found |-> TRUE, bestBattle |-> first.id, bestPoints |-> points,
                     worstBattle |-> first.id, worstPoints |-> points])

\* what findBestAndWorstBattle() returns (key `bestWorst_<sorted ids>_<count>`:
\* the set of arena ids)
BestAndWorstResult(bs, cache) ==
    IF KeySet(bs) \in DOMAIN cache.bestWorst THEN cache.bestWorst[KeySet(bs)]
    ELSE ComputeBestAndWorst(bs)

FindBestAndWorstBattle ==
    /\ calculationCache' =
         [calculationCache EXCEPT !.bestWorst = Assign(calculationCache.bestWorst, KeySet(BattleStats),
                                                       BestAndWorstResult(BattleStats, calculationCache))]
    /\ UNCHANGED <<BattleStats, PlayersInfo, curentArenaId, curentPlayerId, curentVehicle,
                   pushes, lastOp, swapped, inserted, sync, pull, manager, tracker, widget>>

\* ------------------------------------------------------------- saveToServer
\* (variant: the player records are left out of the payload)
DataToSendWithoutPlayers(bs, pi, playerId, now) ==
    [playerId |-> playerId,
     BattleStats |-> [i \in 1..Len(bs) |-> [id |-> bs[i].id,
                                            battle |-> [bs[i].battle EXCEPT !.players = NoPlayers]]],
     PlayerInfo |-> [pid \in DOMAIN pi |-> [_id |-> pi[pid]]]]

\* dataToSend: every record of BattleStats with its fields defaulted, every name
\* of PlayersInfo wrapped as {_id: name}
DataToSend(bs, pi, playerId, now) ==
    [playerId |-> playerId,
     BattleStats |->
        [i \in 1..Len(bs) |->
            LET battle == bs[i].battle
            IN [id |-> bs[i].id,
                battle |-> [startTime |-> Or(battle.startTime, now),
                            duration |-> battle.duration,
                            win |-> battle.win,
                            mapName |-> Or(battle.mapName, UnknownMap),
                            players |-> [pid \in DOMAIN battle.players |->
                                LET p == battle.players[pid]
                                IN [name |-> Or(p.name, UnknownPlayer),
                                    damage |-> p.damage,
                                    kills |-> p.kills,
                                    points |-> p.points,
                                    vehicle |-> Or(p.vehicle, UnknownVehicle)]]]]],
     PlayerInfo |-> [pid \in DOMAIN pi |-> [_id |-> pi[pid]]]]

\* the payload of saveToServer as handleServerData receives it when the
\* backend answers with what it was sent: success, every number present
\* (typeof === 'number'), every string and every {_id: name} as written
EchoedSnapshot(dataToSend) ==
    Snapshot(TRUE,
             [i \in 1..Len(dataToSend.BattleStats) |->
                 LET e == dataToSend.BattleStats[i]
                 IN [id |-> e.id,
                     battle |-> [startTime |-> e.battle.startTime,
                                 duration |-> {e.battle.duration},
                                 win |-> {e.battle.win},
                                 mapName |-> e.battle.mapName,
                                 players |-> [pid \in DOMAIN e.battle.players |->
                                     LET q == e.battle.players[pid]
                                     IN [name |-> q.name, damage |-> {q.damage},
                                         kills |-> {q.kills}, points |-> {q.points},
                                         vehicle |-> q.vehicle]]]]],
             TRUE, dataToSend.PlayerInfo)

\* One saveToServer invocation and its closure:
\*   emitted       updateStats was emitted on the socket
\*   ack           "none" | "waiting" | "delivered": the acknowledgment callback
\*   status        the status of a delivered acknowledgment (0 when there is none)
\*   timer         the 3 s setTimeout is pending
\*   saveCallbackReceived, fallbackUsed   the closure's flags
\*   rest          "none" | "pending" | "ok" | "failed": the saveViaREST call
\*   restFrom      "none" | "direct" | "timer": who called saveViaREST
\*   restCalls     how many times saveViaREST was called
\*   restPayload   what it was called with (<<>> when it was not)
\*   first         history: "none" | "ack" | "timer", which callback ran first
\*   uncaught      saveViaREST threw inside the timer callback, where nothing
\*                 awaits or catches the rejected promise
\*   outcome       "pending" | "returned" | "threw": what the caller of
\*                 saveToServer observes
\*   calls, store  history: the serverDataDebounced calls this invocation
\*                 answers and BattleStats after the last of them
NoFlight ==
    [payload |-> DataToSend(<<>>, EmptyMap, NoPlayer, "now1"), emitted |-> FALSE, ack |-> "none",
     status |-> 0, timer |-> FALSE, saveCallbackReceived |-> FALSE, fallbackUsed |-> FALSE,
     rest |-> "none", restFrom |-> "none", restCalls |-> 0, restPayload |-> <<>>,
     first |-> "none", uncaught |-> FALSE, outcome |-> "returned", calls |-> 0, store |-> <<>>]

\* the closure right after saveToServer() has run up to its first await or return
SaveToServer(s, bs, pi, playerId, now) ==
    LET dataToSend == DataToSend(bs, pi, playerId, now)
        base == [NoFlight EXCEPT !.calls = s.calls, !.store = s.atLast]
    IN  IF ~s.hasKey THEN base
        ELSE IF s.connected
        THEN [base EXCEPT !.payload = dataToSend, !.emitted = TRUE, !.ack = "waiting",
                          !.timer = TRUE]
        ELSE [base EXCEPT !.payload = dataToSend, !.rest = "pending", !.restFrom = "direct",
                          !.restCalls = 1, !.restPayload = dataToSend, !.outcome = "pending"]

\* the debounce timer elapses: serverData() calls saveToServer()
ServerData(now) ==
    /\ sync.timer
    /\ Len(sync.flights) < MaxSaves
    /\ sync' = [sync EXCEPT !.timer = FALSE, !.calls = 0,
                            !.flights = Append(@, SaveToServer(sync, BattleStats, PlayersInfo,
                                                               curentPlayerId, now))]
    /\ UNCHANGED <<BattleStats, PlayersInfo, calculationCache, curentArenaId, curentPlayerId,
                   curentVehicle, pushes, lastOp, swapped, inserted, pull, manager, tracker,
                   widget>>

\* (variant: the callback does not look at fallbackUsed)
SaveAckUnguarded(i, status) ==
    /\ i \in 1..Len(sync.flights)
    /\ sync.flights[i].ack = "waiting"
    /\ LET f == sync.flights[i]
       IN sync' = [sync EXCEPT !.flights[i] =
                    [f EXCEPT !.ack = "delivered", !.status = status,
                              !.saveCallbackReceived = TRUE,
                              !.first = IF f.first = "none" THEN "ack" ELSE f.first]]
    /\ UNCHANGED <<BattleStats, PlayersInfo, calculationCache, curentArenaId, curentPlayerId,
                   curentVehicle, pushes, lastOp, swapped, inserted, pull, manager, tracker,
                   widget>>

\* the acknowledgment callback of updateStats runs with response.status = status
SaveAck(i, status) ==
    /\ i \in 1..Len(sync.flights)
    /\ sync.flights[i].ack = "waiting"
    /\ LET f == sync.flights[i]
       IN sync' = [sync EXCEPT !.flights[i] =
                    [f EXCEPT !.ack = "delivered", !.status = status,
                              !.saveCallbackReceived = IF f.fallbackUsed THEN f.saveCallbackReceived
                                                       ELSE TRUE,
                              !.first = IF f.first = "none" THEN "ack" ELSE f.first]]
    /\ UNCHANGED <<BattleStats, PlayersInfo, calculationCache, curentArenaId, curentPlayerId,
                   curentVehicle, pushes, lastOp, swapped, inserted, pull, manager, tracker,
                   widget>>

\* (variant: the timer callback never falls back)
SaveTimeoutWithoutFallback(i) ==
    /\ i \in 1..Len(sync.flights)
    /\ sync.flights[i].timer
    /\ LET f == sync.flights[i]
       IN sync' = [sync EXCEPT !.flights[i] =
                    [f EXCEPT !.timer = FALSE,
                              !.first = IF f.first = "none" THEN "timer" ELSE f.first]]
    /\ UNCHANGED <<BattleStats, PlayersInfo, calculationCache, curentArenaId, curentPlayerId,
                   curentVehicle, pushes, lastOp, swapped, inserted, pull, manager, tracker,
                   widget>>

\* the 3 s timer callback runs
SaveTimeout(i) ==
    /\ i \in 1..Len(sync.flights)
    /\ sync.flights[i].timer
    /\ LET f == sync.flights[i]
       IN sync' = [sync EXCEPT !.flights[i] =
                    IF ~f.saveCallbackReceived /\ ~f.fallbackUsed
                    THEN [f EXCEPT !.timer = FALSE, !.fallbackUsed = TRUE, !.rest = "pending",
                                   !.restFrom = "timer", !.restCalls = f.restCalls + 1,
                                   !.restPayload = f.payload,
                                   !.first = IF f.first = "none" THEN "timer" ELSE f.first]
                    ELSE [f EXCEPT !.timer = FALSE,
                                   !.first = IF f.first = "none" THEN "timer" ELSE f.first]]
    /\ UNCHANGED <<BattleStats, PlayersInfo, calculationCache, curentArenaId, curentPlayerId,
                   curentVehicle, pushes, lastOp, swapped, inserted, pull, manager, tracker,
                   widget>>

\* saveViaREST settles: ok, or it throws (fetch error, !response.ok, !result.success)
SaveViaREST(i, ok) ==
    /\ i \in 1..Len(sync.flights)
    /\ sync.flights[i].rest = "pending"
    /\ LET f == sync.flights[i]
       IN sync' = [sync EXCEPT !.flights[i] =
                    [f EXCEPT !.rest = IF ok THEN "ok" ELSE "failed",
                              !.uncaught = ~ok /\ f.restFrom = "timer",
                              !.outcome = IF f.restFrom = "direct"
                                          THEN (IF ok THEN "returned" ELSE "threw")
                                          ELSE f.outcome]]
    /\ UNCHANGED <<BattleStats, PlayersInfo, calculationCache, curentArenaId, curentPlayerId,
                   curentVehicle, pushes, lastOp, swapped, inserted, pull, manager, tracker,
                   widget>>

\* the socket connects or drops
SocketConnected(up) ==
    /\ sync.observed /\ sync.hasKey
    /\ sync.connected # up
    /\ sync' = [sync EXCEPT !.connected = up]
    /\ UNCHANGED <<BattleStats, PlayersInfo, calculationCache, curentArenaId, curentPlayerId,
                   curentVehicle, pushes, lastOp, swapped, inserted, pull, manager, tracker,
                   widget>>

\* ------------------------------------------ socket.on('statsUpdated', ...)
\* the handler of the server's notification, the same in both builds
StatsUpdated(data) ==
    /\ pull.observed /\ sync.hasKey
    /\ Len(pull.log) < MaxNotices
    /\ LET emit == KeyMatches(data, AccessKey)
       IN pull' = [pull EXCEPT !.log = Append(@, [data |-> data, requested |-> emit]),
                               !.pending = IF emit THEN @ + 1 ELSE @]
    /\ UNCHANGED <<BattleStats, PlayersInfo, calculationCache, curentArenaId, curentPlayerId,
                   curentVehicle, pushes, lastOp, swapped, inserted, sync, manager, tracker,
                   widget>>

\* oldPlayersInfo !== newPlayersInfo || oldBattleStats !== newBattleStats on the
\* JSON.stringify texts: the same keys in the same order with the same values
\* (the order of the players inside one battle is not represented)
SerializedDiffers(oldBs, oldPi, newBs, newPi) == oldPi # newPi \/ oldBs # newBs

\* the getStats callback of coreService.js; data is response.body
GetStatsReply(status, data, now) ==
    /\ pull.build = "coreService.js"
    /\ pull.pending > 0
    /\ IF status = 200 /\ HandleServerDataThrows(data)
       THEN /\ pull' = [pull EXCEPT !.pending = @ - 1, !.thrown = @ + 1]
            /\ UNCHANGED <<BattleStats, PlayersInfo, inserted, calculationCache>>
       ELSE IF status = 200
       THEN LET r == HandleServerData(BattleStats, PlayersInfo, calculationCache, data, now)
            IN /\ BattleStats' = r.BattleStats
               /\ PlayersInfo' = r.PlayersInfo
               /\ inserted' = inserted \o NewlyInserted(r.BattleStats, inserted)
               /\ calculationCache' = ClearCalculationCache(calculationCache)
               /\ pull' = [pull EXCEPT !.pending = @ - 1,
                                       !.ui = Append(@, [changed |-> SerializedDiffers(BattleStats,
                                                            PlayersInfo, r.BattleStats, r.PlayersInfo),
                                                         emitted |-> TRUE])]
       ELSE /\ pull' = [pull EXCEPT !.pending = @ - 1]
            /\ UNCHANGED <<BattleStats, PlayersInfo, inserted, calculationCache>>
    /\ UNCHANGED <<curentArenaId, curentPlayerId, curentVehicle, pushes, lastOp, swapped, sync,
                   manager, tracker, widget>>

\* the getStats callback of part_000; data is what its handleServerData is given
GetStatsReplyHistory(status, data, now) ==
    /\ pull.build = "part_000"
    /\ pull.pending > 0
    /\ IF status = 200 /\ HandleServerDataHistoryThrows(data)
       THEN /\ pull' = [pull EXCEPT !.pending = @ - 1, !.thrown = @ + 1]
            /\ UNCHANGED <<BattleStats, PlayersInfo, inserted, calculationCache>>
       ELSE IF status = 200
       THEN LET r == HandleServerDataHistory(BattleStats, PlayersInfo, calculationCache, data, now)
                differs == SerializedDiffers(BattleStats, PlayersInfo, r.BattleStats, r.PlayersInfo)
            IN /\ BattleStats' = r.BattleStats
               /\ PlayersInfo' = r.PlayersInfo
               /\ inserted' = inserted \o NewlyInserted(r.BattleStats, inserted)
               /\ calculationCache' = IF differs THEN ClearCalculationCache(calculationCache)
                                      ELSE r.calculationCache
               /\ pull' = [pull EXCEPT !.pending = @ - 1,
                                       !.ui = Append(@, [changed |-> differs, emitted |-> differs])]
       ELSE /\ pull' = [pull EXCEPT !.pending = @ - 1]
            /\ UNCHANGED <<BattleStats, PlayersInfo, inserted, calculationCache>>
    /\ UNCHANGED <<curentArenaId, curentPlayerId, curentVehicle, pushes, lastOp, swapped, sync,
                   manager, tracker, widget>>

\* ------------------------------------------- loadFromServer of part_000
\* loadFromServer() with an access key and a connected socket, up to the
\* emit of getStats
LoadFromServer ==
    /\ pull.observed /\ pull.build = "part_000" /\ sync.hasKey
    /\ pull.loading = "none"
    /\ calculationCache' = ClearCalculationCache(calculationCache)
    /\ pull' = [pull EXCEPT !.loading = "socket"]
    /\ UNCHANGED <<BattleStats, PlayersInfo, curentArenaId, curentPlayerId, curentVehicle,
                   pushes, lastOp, swapped, inserted, sync, manager, tracker, widget>>

\* the getStats callback of loadFromServer: the response is reconciled, or
\* loadViaREST starts
LoadReply(status, data, now) ==
    /\ pull.loading = "socket"
    /\ IF status = 200 /\ HandleServerDataHistoryThrows(data)
       THEN /\ pull' = [pull EXCEPT !.loading = "none", !.thrown = @ + 1]
            /\ UNCHANGED <<BattleStats, PlayersInfo, inserted, calculationCache>>
       ELSE IF status = 200
       THEN LET r == HandleServerDataHistory(BattleStats, PlayersInfo, calculationCache, data, now)
            IN /\ BattleStats' = r.BattleStats
               /\ PlayersInfo' = r.PlayersInfo
               /\ inserted' = inserted \o NewlyInserted(r.BattleStats, inserted)
               /\ calculationCache' = r.calculationCache
               /\ pull' = [pull EXCEPT !.loading = "none"]
       ELSE /\ calculationCache' = ClearCalculationCache(calculationCache)
            /\ pull' = [pull EXCEPT !.loading = "rest"]
            /\ UNCHANGED <<BattleStats, PlayersInfo, inserted>>
    /\ UNCHANGED <<curentArenaId, curentPlayerId, curentVehicle, pushes, lastOp, swapped, sync,
                   manager, tracker, widget>>

\* the fetch of loadViaREST is answered: handleServerData({success: true,
\* ...body.data}) when res.ok, nothing otherwise (an exception is caught)
LoadViaRESTReply(ok, data, now) ==
    /\ pull.loading = "rest"
    /\ pull' = [pull EXCEPT !.loading = "none"]
    /\ IF ok /\ ~HandleServerDataHistoryThrows(data)
       THEN LET r == HandleServerDataHistory(BattleStats, PlayersInfo, calculationCache,
                                             [data EXCEPT !.success = TRUE], now)
            IN /\ BattleStats' = r.BattleStats
               /\ PlayersInfo' = r.PlayersInfo
               /\ inserted' = inserted \o NewlyInserted(r.BattleStats, inserted)
               /\ calculationCache' = r.calculationCache
       ELSE UNCHANGED <<BattleStats, PlayersInfo, inserted, calculationCache>>
    /\ UNCHANGED <<curentArenaId, curentPlayerId, curentVehicle, pushes, lastOp, swapped, sync,
                   manager, tracker, widget>>

\* ------------------------------------------- BattleDataManager operations
\* what getStats / GET stats answers the manager with
ManagerSnapshots ==
    {Snapshot(TRUE, <<>>, FALSE, EmptyMap),
     Snapshot(TRUE, <<[id |-> "b", battle |-> FullBattle([x \in {"2"} |-> FullPlayer])]>>,
              TRUE, [x \in {"2"} |-> [_id |-> "Srv"]]),
     Snapshot(TRUE, <<[id |-> "b", battle |-> OnePlayer("2", BarePlayer)]>>, FALSE, EmptyMap)}

ManagerState(m) ==
    [BattleStats |-> m.BattleStats, PlayersInfo |-> m.PlayersInfo, persisted |-> m.persisted]

\* the operation in progress ends; result is what its caller observes
Completed(m, result) ==
    [m EXCEPT !.op = NoOp,
              !.results = Append(@, [name |-> m.op.name, input |-> m.op.input, result |-> result,
                                     requests |-> m.op.requests,
                                     mutated |-> ManagerState(m) # m.op.before])]

\* an operation starts by sending its first request
Started(m, name, input) ==
    [m EXCEPT !.op = [name |-> name, stage |-> "sent", input |-> input,
                      channel |-> IF m.connected THEN "socket" ELSE "rest", requests |-> 1,
                      before |-> ManagerState(m)]]

\* an operation ends before it has sent anything
Refused(m, name, input, result) ==
    Completed([m EXCEPT !.op = [NoOp EXCEPT !.name = name, !.input = input,
                                            !.before = ManagerState(m)]], result)

\* importData(importedData) up to the answer of importStats / POST import
ImportData(importedData) ==
    /\ manager.observed
    /\ manager.op.name = "idle"
    /\ Len(manager.results) < MaxOps
    /\ manager' = IF ~IsValidImportData(importedData) THEN Refused(manager, "importData", importedData, "false")
                  ELSE IF ~manager.hasKey THEN Refused(manager, "importData", importedData, "false")
                  ELSE Started(manager, "importData", importedData)
    /\ UNCHANGED <<BattleStats, PlayersInfo, calculationCache, curentArenaId, curentPlayerId,
                   curentVehicle, pushes, lastOp, swapped, inserted, sync, pull, tracker, widget>>

\* deleteBattle(battleId) up to the answer of deleteBattle / DELETE battle
DeleteBattle(battleId) ==
    /\ manager.observed
    /\ manager.op.name = "idle"
    /\ Len(manager.results) < MaxOps
    /\ manager' = IF ~manager.hasKey THEN Refused(manager, "deleteBattle", battleId, "false")
                  ELSE Started(manager, "deleteBattle", battleId)
    /\ UNCHANGED <<BattleStats, PlayersInfo, calculationCache, curentArenaId, curentPlayerId,
                   curentVehicle, pushes, lastOp, swapped, inserted, sync, pull, tracker, widget>>

\* the first request is answered: rejected, or refreshLocalData() runs
\* clearState() and loadFromServer() sends its request
ManagerAck(ok) ==
    /\ manager.observed
    /\ manager.op.stage = "sent"
    /\ manager' = IF ~ok THEN Completed(manager, "false")
                  ELSE [manager EXCEPT !.BattleStats = <<>>, !.PlayersInfo = EmptyMap,
                                       !.persisted = NothingSaved,
                                       !.op = [@ EXCEPT !.stage = "loading", !.requests = @ + 1]]
    /\ UNCHANGED <<BattleStats, PlayersInfo, calculationCache, curentArenaId, curentPlayerId,
                   curentVehicle, pushes, lastOp, swapped, inserted, sync, pull, tracker, widget>>

\* saveState(): StateManager.saveState if dataLoadedFromServer
ManagerSaveState(m) ==
    IF m.dataLoadedFromServer THEN [m EXCEPT !.persisted = Saved(m.BattleStats, m.PlayersInfo)]
    ELSE m

\* initializeState(): the saved state is taken if BattleStats is empty
InitializeState(m) ==
    IF m.persisted.saved /\ Len(m.BattleStats) = 0
    THEN [m EXCEPT !.BattleStats = m.persisted.BattleStats, !.PlayersInfo = m.persisted.PlayersInfo]
    ELSE m

\* loadFromServer() is answered: handleServerData(data), or it throws; the
\* operation that awaited it goes on to its end
RefreshLoaded(ok, data, now) ==
    /\ manager.observed
    /\ manager.op.stage = "loading"
    /\ LET threw == ok /\ ManagerHandleServerDataThrows(data)
           m == IF threw THEN [manager EXCEPT !.thrown = @ + 1] ELSE manager
       IN manager' =
          IF manager.op.name = "forceLoadFromServer"
          THEN IF ok /\ ~threw THEN Completed(ManagerHandleServerData(m, data, now), "done")
               ELSE Completed(InitializeState(m), "done")
          ELSE IF ok /\ ~threw
               THEN Completed(ManagerSaveState(ManagerHandleServerData(m, data, now)), "true")
               ELSE Completed(m, "false")
    /\ UNCHANGED <<BattleStats, PlayersInfo, calculationCache, curentArenaId, curentPlayerId,
                   curentVehicle, pushes, lastOp, swapped, inserted, sync, pull, tracker, widget>>

\* the manager's statsUpdated handler: forceLoadFromServer() for its own key
HistoryStatsUpdated(data) ==
    /\ manager.observed /\ manager.hasKey
    /\ manager.op.name = "idle"
    /\ Len(manager.notices) < MaxNotices
    /\ LET reload == KeyMatches(data, AccessKey)
           noted == [manager EXCEPT !.notices = Append(@, [data |-> data, requested |-> reload])]
       IN manager' =
            IF reload
            THEN [noted EXCEPT !.BattleStats = <<>>, !.PlayersInfo = EmptyMap,
                               !.op = [name |-> "forceLoadFromServer", stage |-> "loading",
                                       input |-> <<>>,
                                       channel |-> IF manager.connected THEN "socket" ELSE "rest",
                                       requests |-> 1, before |-> ManagerState(manager)]]
            ELSE noted
    /\ UNCHANGED <<BattleStats, PlayersInfo, calculationCache, curentArenaId, curentPlayerId,
                   curentVehicle, pushes, lastOp, swapped, inserted, sync, pull, tracker, widget>>

\* ------------------------------------------------- SquadWidget.init
\* (variant: the stored key is left in localStorage)
RemoveItemSkipped(accessKey) == accessKey

\* localStorage.removeItem('accessKey')
RemoveItem(accessKey) == ""

\* checkAccessKey() has returned false, or init() caught an error:
\* showAccessDenied(), nothing else
AccessRefused(w, outcome) ==
    [w EXCEPT !.at = "end", !.outcome = outcome, !.hasAccess = "false", !.denied = TRUE]

\* checkAccessKey() has returned true: initializeServices(); built tells which
\* constructor, if any, throws
AccessGranted(w, built) ==
    LET granted == [w EXCEPT !.at = "end", !.outcome = "success", !.hasAccess = "true",
                             !.accessKey = IF w.urlKey # "" THEN w.urlKey ELSE @]
    IN CASE built = "both" ->
                [granted EXCEPT !.coreService = TRUE, !.uiService = TRUE, !.loads = @ + 1]
         [] built = "uiServiceThrows" -> [granted EXCEPT !.coreService = TRUE, !.denied = TRUE]
         [] OTHER -> [granted EXCEPT !.denied = TRUE]

\* init() up to the first await of checkAccessKey(): the stored key is
\* removed; without a key in the URL checkAccessKey returns false
WidgetInit ==
    /\ widget.observed /\ widget.at = "start"
    /\ LET w == [widget EXCEPT !.accessKey = RemoveItem(@)]
       IN widget' = IF w.urlKey = "" THEN AccessRefused(w, "noKey")
                    ELSE [w EXCEPT !.at = "fetch"]
    /\ UNCHANGED <<BattleStats, PlayersInfo, calculationCache, curentArenaId, curentPlayerId,
                   curentVehicle, pushes, lastOp, swapped, inserted, sync, pull, manager,
                   tracker>>

\* the fetch settles: status 0 stands for a rejected fetch, otherwise the
\* response carries the status
CheckResponse(status) ==
    /\ widget.observed /\ widget.at = "fetch"
    /\ widget' = IF status = 0 THEN AccessRefused(widget, "networkError")
                 ELSE IF status = 401 THEN AccessRefused(widget, "401")
                 ELSE IF status \notin 200..299 THEN AccessRefused(widget, "notOk")
                 ELSE [widget EXCEPT !.at = "json"]
    /\ UNCHANGED <<BattleStats, PlayersInfo, calculationCache, curentArenaId, curentPlayerId,
                   curentVehicle, pushes, lastOp, swapped, inserted, sync, pull, manager,
                   tracker>>

\* response.json() settles: the body is no JSON, or data.success is read; on
\* success the key is stored, checkAccessKey returns true and init() goes on
\* to initializeServices()
CheckBody(body, built) ==
    /\ widget.observed /\ widget.at = "json"
    /\ widget' = IF body = "invalid" THEN AccessRefused(widget, "invalidBody")
                 ELSE IF body = "success" THEN AccessGranted(widget, built)
                 ELSE AccessRefused(widget, "successFalse")
    /\ UNCHANGED <<BattleStats, PlayersInfo, calculationCache, curentArenaId, curentPlayerId,
                   curentVehicle, pushes, lastOp, swapped, inserted, sync, pull, manager,
                   tracker>>

\* ------------------------------------------------------------------- Next
Next ==
    \/ \E data \in LiveSnapshots, now \in Clock : ServerPush(data, now, FALSE)
    \/ \E now \in Clock : HandleArena(LiveArena, "Prokhorovka", now)
    \/ \E v \in {"T-34"} : HandleHangarVehicle(v)
    \/ \E now \in Clock : HandlePlayerDamage(MaxDamage, now)
    \/ \E now \in Clock : HandlePlayerKill(now)
    \/ \E result \in Results : HandleBattleResult(result)
    \/ ClearServerData
    \/ CalculateTeamData
    \/ FindBestAndWorstBattle

Spec == Init /\ [][Next]_vars

\* ------------------------------------------- reconciliation on its own
\* A battle is opened and damage is dealt locally; from then on the store is
\* amended by server snapshots only, each of them recorded in the history.
NextMerge ==
    \/ \E now \in Clock : pushes = 0 /\ HandleArena(LiveArena, "Prokhorovka", now)
    \/ \E now \in Clock : pushes = 0 /\ HandlePlayerDamage(MaxDamage, now)
    \/ \E data \in Snapshots, now \in Clock : ServerPush(data, now, TRUE)

SpecMerge == Init /\ [][NextMerge]_vars

\* ------------------------------------------- outbound synchronisation observed
\* One battle is opened and fought; the scheduler and the transport are observed.
InitSync ==
    /\ BattleStats = <<>>
    /\ PlayersInfo = EmptyMap
    /\ calculationCache = EmptyCache
    /\ curentArenaId = NoArena
    /\ curentPlayerId = SdkPlayerId
    /\ curentVehicle = ""
    /\ pushes = 0
    /\ lastOp = Op("event")
    /\ swapped = <<>>
    /\ inserted = <<>>
    /\ \E key \in BOOLEAN : sync = [SyncOff EXCEPT !.observed = TRUE, !.hasKey = key]
    /\ pull = PullOff
    /\ manager = ManagerOff
    /\ tracker = TrackerOff
    /\ widget = WidgetOff

NextSync ==
    \/ \E now \in Clock : curentArenaId = NoArena /\ HandleArena(LiveArena, "Prokhorovka", now)
    \/ \E now \in Clock : HandlePlayerDamage(MaxDamage, now)
    \/ \E now \in Clock : HandlePlayerKill(now)
    \/ \E now \in Clock : ServerData(now)
    \/ \E i \in 1..MaxSaves, status \in {202, 500} : SaveAck(i, status)
    \/ \E i \in 1..MaxSaves : SaveTimeout(i)
    \/ \E i \in 1..MaxSaves, ok \in BOOLEAN : SaveViaREST(i, ok)
    \/ \E up \in BOOLEAN : SocketConnected(up)

SpecSync == InitSync /\ [][NextSync]_vars

\* --------------------------------------------------- notifications observed
\* The server announces changes; either build of the handler is installed.
InitPull ==
    /\ BattleStats = <<>>
    /\ PlayersInfo = EmptyMap
    /\ calculationCache = EmptyCache
    /\ curentArenaId = NoArena
    /\ curentPlayerId = SdkPlayerId
    /\ curentVehicle = ""
    /\ pushes = 0
    /\ lastOp = Op("event")
    /\ swapped = <<>>
    /\ inserted = <<>>
    /\ sync = SyncOff
    /\ tracker = TrackerOff
    /\ widget = WidgetOff
    /\ \/ /\ \E b \in {"coreService.js", "part_000"} :
                pull = [PullOff EXCEPT !.observed = TRUE, !.build = b]
          /\ manager = ManagerOff
       \/ /\ pull = PullOff
          /\ manager \in {ManagerIdle, ManagerLoaded, [ManagerLoaded EXCEPT !.connected = FALSE]}

NextPull ==
    \/ \E data \in Notices : StatsUpdated(data)
    \/ \E status \in {200, 500}, data \in LiveSnapshots, now \in Clock :
          GetStatsReply(status, data, now)
    \/ \E status \in {200, 500}, data \in LiveSnapshots, now \in Clock :
          GetStatsReplyHistory(status, data, now)
    \/ \E data \in Notices : HistoryStatsUpdated(data)
    \/ \E ok \in BOOLEAN, data \in ManagerSnapshots, now \in Clock : RefreshLoaded(ok, data, now)

SpecPull == InitPull /\ [][NextPull]_vars

\* ------------------------------------------- the aggregate queries observed
\* One battle is opened, fought and resolved while the UI asks for the team,
\* player and battle aggregates.
NextQueries ==
    \/ \E now \in Clock : curentArenaId = NoArena /\ HandleArena(LiveArena, "Prokhorovka", now)
    \/ \E now \in Clock : HandlePlayerDamage(MaxDamage, now)
    \/ \E now \in Clock : HandlePlayerKill(now)
    \/ \E result \in Results : HandleBattleResult(result)
    \/ CalculateTeamData
    \/ CalculatePlayerData(SdkPlayerId)
    \/ CalculateBattleData(LiveArena)

SpecQueries == Init /\ [][NextQueries]_vars

\* ------------------------------------------- loads of the history view observed
\* The history view's CoreService loads the store again and again while the
\* UI asks for the aggregates.
InitLoad ==
    /\ BattleStats = <<>>
    /\ PlayersInfo = EmptyMap
    /\ calculationCache = EmptyCache
    /\ curentArenaId = NoArena
    /\ curentPlayerId = SdkPlayerId
    /\ curentVehicle = ""
    /\ pushes = 0
    /\ lastOp = Op("event")
    /\ swapped = <<>>
    /\ inserted = <<>>
    /\ sync = SyncOff
    /\ pull = [PullOff EXCEPT !.observed = TRUE, !.build = "part_000"]
    /\ manager = ManagerOff
    /\ tracker = TrackerOff
    /\ widget = WidgetOff

NextLoad ==
    \/ LoadFromServer
    \/ \E status \in {200, 500}, data \in LiveSnapshots, now \in Clock :
          LoadReply(status, data, now)
    \/ \E ok \in BOOLEAN, data \in LiveSnapshots, now \in Clock : LoadViaRESTReply(ok, data, now)
    \/ CalculateTeamData
    \/ \E playerId \in {SdkPlayerId} : CalculatePlayerData(playerId)
    \/ \E arenaId \in ArenaIds : CalculateBattleData(arenaId)

SpecLoad == InitLoad /\ [][NextLoad]_vars

\* ------------------------------------------- the two handleServerData compared
\* no record of the snapshot is wrapped in an envelope {_id: record}
IsUnwrapped(data) ==
    \A i \in 1..Len(data.BattleStats) :
        LET battle == data.BattleStats[i].battle
        IN /\ "_id" \notin DOMAIN battle
           /\ \A pid \in DOMAIN battle.players : "_id" \notin DOMAIN battle.players[pid]

\* the successful unwrapped snapshots neither handler throws on
UnwrappedSnapshots ==
    {data \in Snapshots \cup MalformedSnapshots \cup ManagerSnapshots :
        data.success /\ ~EntriesThrow(data.BattleStats) /\ IsUnwrapped(data)}

\* CoreService and BattleDataManager, both with an empty store, are handed the
\* same snapshot
BothHandleServerData(data, now) ==
    /\ lastOp.op # "reconcile"
    /\ LET r == HandleServerData(BattleStats, PlayersInfo, calculationCache, data, now)
       IN /\ BattleStats' = r.BattleStats
          /\ PlayersInfo' = r.PlayersInfo
          /\ calculationCache' = r.calculationCache
          /\ inserted' = inserted \o NewlyInserted(r.BattleStats, inserted)
    /\ manager' = ManagerHandleServerData(manager, data, now)
    /\ lastOp' = [op |-> "reconcile", data |-> data, before |-> BattleStats,
                  beforeInfo |-> PlayersInfo]
    /\ UNCHANGED <<curentArenaId, curentPlayerId, curentVehicle, pushes, swapped, sync, pull,
                   tracker, widget>>

InitBoth ==
    /\ BattleStats = <<>>
    /\ PlayersInfo = EmptyMap
    /\ calculationCache = EmptyCache
    /\ curentArenaId = NoArena
    /\ curentPlayerId = SdkPlayerId
    /\ curentVehicle = ""
    /\ pushes = 0
    /\ lastOp = Op("event")
    /\ swapped = <<>>
    /\ inserted = <<>>
    /\ sync = SyncOff
    /\ pull = PullOff
    /\ tracker = TrackerOff
    /\ widget = WidgetOff
    /\ \E key \in BOOLEAN, up \in BOOLEAN :
          manager = [ManagerIdle EXCEPT !.hasKey = key, !.connected = up]

NextBoth == \E data \in UnwrappedSnapshots, now \in DateNow : BothHandleServerData(data, now)

SpecBoth == InitBoth /\ [][NextBoth]_vars

\* ------------------------------------------- the page of the widget observed
\* The page is opened with or without a key in its URL and with or without a
\* key left in localStorage; the game's events reach CoreService once the
\* widget has constructed it.
InitWidget ==
    /\ BattleStats = <<>>
    /\ PlayersInfo = EmptyMap
    /\ calculationCache = EmptyCache
    /\ curentArenaId = NoArena
    /\ curentPlayerId = SdkPlayerId
    /\ curentVehicle = ""
    /\ pushes = 0
    /\ lastOp = Op("event")
    /\ swapped = <<>>
    /\ inserted = <<>>
    /\ sync = SyncOff
    /\ pull = PullOff
    /\ manager = ManagerOff
    /\ tracker = TrackerOff
    /\ \E urlKey \in {"", AccessKey}, earlier \in {"", AccessKey, "old"} :
          widget = WidgetOpened(urlKey, earlier)

NextWidget ==
    \/ WidgetInit
    \/ \E status \in {0, 200, 401, 500} : CheckResponse(status)
    \/ \E body \in {"success", "failure", "invalid"},
          built \in {"both", "uiServiceThrows", "coreServiceThrows"} : CheckBody(body, built)
    \/ \E now \in Clock :
          widget.coreService /\ curentArenaId = NoArena
              /\ HandleArena(LiveArena, "Prokhorovka", now)
    \/ \E now \in Clock : widget.coreService /\ HandlePlayerDamage(MaxDamage, now)
    \/ \E now \in Clock : widget.coreService /\ HandlePlayerKill(now)
    \/ \E result \in Results : widget.coreService /\ HandleBattleResult(result)
    \/ widget.coreService /\ CalculateTeamData

SpecWidget == InitWidget /\ [][NextWidget]_vars

\* ------------------------------------------- clearServerData observed
\* A battle is opened and fought and the team aggregate asked for while the
\* user clears the statistics, with or without a key, over either channel.
InitClear ==
    /\ BattleStats = <<>>
    /\ PlayersInfo = EmptyMap
    /\ calculationCache = EmptyCache
    /\ curentArenaId = NoArena
    /\ curentPlayerId = SdkPlayerId
    /\ curentVehicle = ""
    /\ pushes = 0
    /\ lastOp = Op("event")
    /\ swapped = <<>>
    /\ inserted = <<>>
    /\ \E key \in BOOLEAN, up \in BOOLEAN : sync = [SyncOff EXCEPT !.hasKey = key, !.connected = up]
    /\ pull = [PullOff EXCEPT !.observed = TRUE]
    /\ manager = ManagerOff
    /\ tracker = TrackerOff
    /\ widget = WidgetOff

NextClear ==
    \/ \E now \in Clock : curentArenaId = NoArena /\ HandleArena(LiveArena, "Prokhorovka", now)
    \/ \E now \in Clock : HandlePlayerDamage(MaxDamage, now)
    \/ CalculateTeamData
    \/ ClearServerDataCall
    \/ \E i \in 1..MaxOps, status \in {200, 500} : ClearStatsReply(i, status)
    \/ \E i \in 1..MaxOps, ok \in BOOLEAN, success \in BOOLEAN : ClearViaRESTReply(i, ok, success)

SpecClear == InitClear /\ [][NextClear]_vars

\* ------------------------------------------------- the game events observed
\* PlayersInfo as initializeState() finds it in the saved state
TrackedPlayers ==
    {[x \in ids |-> "Srv"] : ids \in {{}, {"2"}, {"2", "3", "4"}, {"2", "3", "4", "5"}}}

\* the battle results of the events run: either account, on the arena of the
\* run or on an arena never opened, every pair of teams
EventResults ==
    {[BaseResult(arena) EXCEPT !.accountDBID = acc, !.team = tw[1], !.winnerTeam = tw[2],
                               !.damageDealt = MaxDamage, !.kills = MaxKills] :
        arena \in {LiveArena, "b"}, acc \in {"1", "2"}, tw \in (0..2) \X (0..2)}

\* BattleStats as initializeState() finds it in the saved state: nothing, or a
\* battle finished in an earlier session
SavedStores ==
    {<<>>,
     <<[id |-> "c",
        battle |-> [startTime |-> "now1", duration |-> 1, win |-> 1, mapName |-> "Prokhorovka",
                    players |-> [x \in {"2"} |->
                                    [name |-> "Srv", damage |-> 1, kills |-> 0, points |-> 1,
                                     vehicle |-> "T-34"]]]]>>}

InitEvents ==
    /\ BattleStats \in SavedStores
    /\ PlayersInfo \in TrackedPlayers
    /\ calculationCache = EmptyCache
    /\ curentArenaId = NoArena
    /\ curentPlayerId = SdkPlayerId
    /\ curentVehicle = ""
    /\ pushes = 0
    /\ lastOp = Op("event")
    /\ swapped = <<>>
    /\ inserted = Keys(BattleStats)
    /\ sync = [SyncOff EXCEPT !.observed = TRUE]
    /\ pull = PullOff
    /\ manager = ManagerOff
    /\ \E p \in BOOLEAN : tracker = [TrackerOff EXCEPT !.observed = TRUE, !.isInPlatoon = p]
    /\ widget = WidgetOff

Pending == sync.calls + sync.delays + sync.hangar + tracker.asleep

NextEvents ==
    \/ \E p \in BOOLEAN : HandlePlatoonStatus(p)
    \/ \E h \in BOOLEAN : Pending < MaxPending /\ HandleHangarStatus(h)
    \/ HangarStatusWakes
    \/ HangarStatusResumes
    \/ \E now \in Clock :
          Pending < MaxPending /\ curentArenaId = NoArena
              /\ HandleArena(LiveArena, "Prokhorovka", now)
    \/ \E now \in Clock : Pending < MaxPending /\ HandlePlayerDamage(MaxDamage, now)
    \/ \E now \in Clock : Pending < MaxPending /\ HandlePlayerKill(now)
    \/ \E result \in EventResults : Pending < MaxPending /\ HandleBattleResult(result)
    \/ BattleResultResumes

SpecEvents == InitEvents /\ [][NextEvents]_vars

\* ------------------------------------------- malformed snapshots are pulled
InitMalformed == InitPull

NextMalformed ==
    \/ StatsUpdated([isNull |-> FALSE, key |-> AccessKey])
    \/ \E status \in {200, 500}, data \in MalformedSnapshots, now \in Clock :
          GetStatsReply(status, data, now)
    \/ \E status \in {200, 500}, data \in MalformedSnapshots, now \in Clock :
          GetStatsReplyHistory(status, data, now)
    \/ HistoryStatsUpdated([isNull |-> FALSE, key |-> AccessKey])
    \/ \E ok \in BOOLEAN, data \in MalformedSnapshots, now \in Clock : RefreshLoaded(ok, data, now)

SpecMalformed == InitMalformed /\ [][NextMalformed]_vars

\* ------------------------------------------------ the history page observed
InitManager ==
    /\ BattleStats = <<>>
    /\ PlayersInfo = EmptyMap
    /\ calculationCache = EmptyCache
    /\ curentArenaId = NoArena
    /\ curentPlayerId = SdkPlayerId
    /\ curentVehicle = ""
    /\ pushes = 0
    /\ lastOp = Op("event")
    /\ swapped = <<>>
    /\ inserted = <<>>
    /\ sync = SyncOff
    /\ pull = PullOff
    /\ tracker = TrackerOff
    /\ widget = WidgetOff
    /\ \E key \in BOOLEAN, up \in BOOLEAN, m \in {ManagerIdle, ManagerLoaded} :
          manager = [m EXCEPT !.hasKey = key, !.connected = up]

NextManager ==
    \/ \E importedData \in ImportPayloads : ImportData(importedData)
    \/ DeleteBattle("a")
    \/ \E ok \in BOOLEAN : ManagerAck(ok)
    \/ \E ok \in BOOLEAN, data \in ManagerSnapshots, now \in Clock : RefreshLoaded(ok, data, now)

SpecManager == InitManager /\ [][NextManager]_vars

\* ===================================================================== claims
\* The last handler was handleServerData with a successful snapshot
Reconciled == lastOp.op = "reconcile" /\ lastOp.data.success
\* the arenas the last snapshot mentions, and its (unwrapped) record of arena a
Mentioned == KeySet(lastOp.data.BattleStats)
Incoming(a) == Unwrap(Get(lastOp.data.BattleStats, a))
\* arenas held both before the last snapshot and by it
Both == KeySet(lastOp.before) \cap Mentioned

\* C1: handleServerData is idempotent: applying the snapshot that was just
\* applied once more (at any later time) leaves BattleStats and PlayersInfo as
\* they are; likewise for the history view's handleServerData, applied once and
\* twice to the store the snapshot met.
C1_Idempotent ==
    lastOp.op = "reconcile" =>
        \A now \in DateNow :
            LET again == HandleServerData(BattleStats, PlayersInfo, calculationCache,
                                          lastOp.data, now)
                once == HandleServerDataHistory(lastOp.before, lastOp.beforeInfo, EmptyCache,
                                                lastOp.data, "now1")
                twice == HandleServerDataHistory(once.BattleStats, once.PlayersInfo,
                                                 once.calculationCache, lastOp.data, now)
            IN /\ again.BattleStats = BattleStats /\ again.PlayersInfo = PlayersInfo
               /\ twice.BattleStats = once.BattleStats /\ twice.PlayersInfo = once.PlayersInfo

\* a second snapshot was merged into a player record that a first one created
C1_Witness ==
    /\ Reconciled /\ pushes = 2
    /\ \E a \in Both : \E pid \in DOMAIN Incoming(a).players :
          /\ pid \in DOMAIN Get(lastOp.before, a).players
          /\ Get(lastOp.before, a).players[pid].points > 0
          /\ Unwrap(Incoming(a).players[pid]).damage # {}

\* C2: an arena held locally that the snapshot does not mention is still held
\* after handleServerData, with every field and player record unchanged.
C2_NonDestructive ==
    lastOp.op = "reconcile" =>
        \A a \in KeySet(lastOp.before) \ Mentioned :
            a \in KeySet(BattleStats) /\ Get(BattleStats, a) = Get(lastOp.before, a)

\* a successful snapshot about one arena arrived while another arena, with a
\* player record, was held locally
C2_Witness ==
    /\ Reconciled /\ Mentioned # {}
    /\ \E a \in KeySet(lastOp.before) \ Mentioned : DOMAIN Get(lastOp.before, a).players # {}

\* C3: for an arena held locally and mentioned by the snapshot, a local player
\* record that the snapshot's player map lacks is still there afterwards, with
\* the same damage, kills and points.
C3_NoPlayerLost ==
    Reconciled =>
        \A a \in Both :
            \A pid \in DOMAIN Get(lastOp.before, a).players \ DOMAIN Incoming(a).players :
                /\ pid \in DOMAIN Get(BattleStats, a).players
                /\ Get(BattleStats, a).players[pid].damage = Get(lastOp.before, a).players[pid].damage
                /\ Get(BattleStats, a).players[pid].kills = Get(lastOp.before, a).players[pid].kills
                /\ Get(BattleStats, a).players[pid].points = Get(lastOp.before, a).players[pid].points

\* C4: merge monotonicity: every arena/player held before the snapshot is held
\* after it with damage, kills and points at least as large, and the arena's
\* duration is at least as large.
C4_Monotone ==
    lastOp.op = "reconcile" =>
        \A a \in KeySet(lastOp.before) :
            /\ a \in KeySet(BattleStats)
            /\ Get(BattleStats, a).duration >= Get(lastOp.before, a).duration
            /\ \A pid \in DOMAIN Get(lastOp.before, a).players :
                  /\ pid \in DOMAIN Get(BattleStats, a).players
                  /\ Get(BattleStats, a).players[pid].damage >= Get(lastOp.before, a).players[pid].damage
                  /\ Get(BattleStats, a).players[pid].kills >= Get(lastOp.before, a).players[pid].kills
                  /\ Get(BattleStats, a).players[pid].points >= Get(lastOp.before, a).players[pid].points

\* the larger of two numbers, for the reference merge
Larger(x, y) == IF x > y THEN x ELSE y
\* the incoming points of a player DTO: explicit, or derived from damage and kills
IncomingPoints(p) ==
    IF p.points # {} THEN NumOrZero(p.points)
    ELSE NumOrZero(p.damage) + NumOrZero(p.kills) * POINTS_PER_FRAG

\* C5: for an arena and player held locally and mentioned by the snapshot, the
\* merged record is the per-field reference merge: damage, kills, points and
\* duration the maximum of local and incoming, win the incoming one unless it
\* is -1, mapName the local one unless unset or 'Unknown Map'.
C5_FieldMerge ==
    Reconciled =>
        \A a \in Both :
            LET local == Get(lastOp.before, a)
                in == Incoming(a)
                out == Get(BattleStats, a)
                inWin == IF in.win = {} THEN -1 ELSE NumOrZero(in.win)
            IN /\ out.duration = Larger(local.duration, NumOrZero(in.duration))
               /\ out.win = (IF inWin # -1 THEN inWin ELSE local.win)
               /\ out.mapName = (IF local.mapName \notin {"", UnknownMap} THEN local.mapName
                                 ELSE IF in.mapName # "" THEN in.mapName ELSE UnknownMap)
               /\ \A pid \in DOMAIN local.players \cap DOMAIN in.players :
                     LET lp == local.players[pid]
                         ip == Unwrap(in.players[pid])
                         op == out.players[pid]
                     IN /\ op.damage = Larger(lp.damage, NumOrZero(ip.damage))
                        /\ op.kills = Larger(lp.kills, NumOrZero(ip.kills))
                        /\ op.points = Larger(lp.points, IncomingPoints(ip))

\* a snapshot met a local record that was larger in one field and smaller in another
C5_Witness ==
    /\ Reconciled
    /\ \E a \in Both : \E pid \in DOMAIN Get(lastOp.before, a).players \cap DOMAIN Incoming(a).players :
          LET lp == Get(lastOp.before, a).players[pid]
              ip == Unwrap(Incoming(a).players[pid])
          IN lp.kills > NumOrZero(ip.kills) /\ lp.damage < NumOrZero(ip.damage)

\* a battle without its startTime, and a store as a map of such battles
Timeless(b) == [duration |-> b.duration, win |-> b.win, mapName |-> b.mapName, players |-> b.players]
AsMap(bs) == [a \in KeySet(bs) |-> Timeless(Get(bs, a))]

\* C6: reconciliation is commutative: after two snapshots in a row BattleStats
\* is (up to startTime and enumeration order) what it would be had they arrived
\* in the other order.
C6_Commutative ==
    (lastOp.op = "reconcile" /\ pushes >= 2) => AsMap(BattleStats) = AsMap(swapped)

\* C7: across damage and kill feedback, battle results and reconciliations, a
\* player's stored damage and kills in an arena never decrease while the arena's
\* record (and the player's record in it) exists.
C7_NeverDecreases ==
    [][\A a \in KeySet(BattleStats) \cap KeySet(BattleStats') :
          \A pid \in DOMAIN Get(BattleStats, a).players \cap DOMAIN Get(BattleStats', a).players :
              /\ Get(BattleStats', a).players[pid].damage >= Get(BattleStats, a).players[pid].damage
              /\ Get(BattleStats', a).players[pid].kills >= Get(BattleStats, a).players[pid].kills]_vars

\* the reference total of a battle: its players' points, plus the team-win bonus
\* once iff win is 1
RefBattlePoints(battle) ==
    SumOver([pid \in DOMAIN battle.players |-> battle.players[pid].points], DOMAIN battle.players)
        + (IF battle.win = 1 THEN POINTS_PER_TEAM_WIN ELSE 0)
RefTotal(a) == RefBattlePoints(Get(BattleStats, a))

\* C8: calculateBattlePoints(battle) is the sum of the players' points plus
\* POINTS_PER_TEAM_WIN once iff battle.win is 1, and calculateTeamData().teamPoints
\* is the sum of that quantity over all battles of BattleStats.
C8_TeamPoints ==
    /\ \A a \in KeySet(BattleStats) :
          CalculateBattlePoints(Get(BattleStats, a)) = RefTotal(a)
    /\ TeamDataResult(BattleStats, calculationCache).teamPoints =
          SumOver([a \in KeySet(BattleStats) |-> RefTotal(a)], KeySet(BattleStats))

\* the decided battles of the store
Decided == {a \in KeySet(BattleStats) : Get(BattleStats, a).win # -1}

\* C9: findBestAndWorstBattle() reports null exactly when no battle is decided;
\* otherwise bestBattle is a decided battle of maximal total among the decided
\* ones, worstBattle one of minimal total, and the reported points are those
\* totals.
C9_BestWorst ==
    LET r == BestAndWorstResult(BattleStats, calculationCache)
    IN /\ r.found = (Decided # {})
       /\ r.found =>
             /\ r.bestBattle \in Decided /\ r.worstBattle \in Decided
             /\ r.bestPoints = RefTotal(r.bestBattle)
             /\ r.worstPoints = RefTotal(r.worstBattle)
             /\ \A a \in Decided : RefTotal(a) <= r.bestPoints /\ RefTotal(a) >= r.worstPoints

\* the query has been answered and memoized for a store that holds a decided
\* battle and an undecided battle with a larger total
C9_Witness ==
    /\ KeySet(BattleStats) \in DOMAIN calculationCache.bestWorst
    /\ \E a \in Decided : \E u \in KeySet(BattleStats) \ Decided : RefTotal(u) > RefTotal(a)

\* the position of arena a in the insertion order
InsertedAt(a) == CHOOSE i \in 1..Len(inserted) : inserted[i] = a
\* the arena of S that entered BattleStats first
FirstInserted(S) == CHOOSE a \in S : \A o \in S : InsertedAt(a) <= InsertedAt(o)

\* C10: among the decided battles that tie for the maximal (minimal) total,
\* findBestAndWorstBattle() reports as best (worst) the one that entered
\* BattleStats first, also after a reconciliation has rebuilt BattleStats.
C10_FirstInserted ==
    LET r == BestAndWorstResult(BattleStats, calculationCache)
        top == {a \in Decided : \A o \in Decided : RefTotal(a) >= RefTotal(o)}
        bottom == {a \in Decided : \A o \in Decided : RefTotal(a) <= RefTotal(o)}
    IN r.found => r.bestBattle = FirstInserted(top) /\ r.worstBattle = FirstInserted(bottom)

\* the reference team totals of a store: sums over all players of all battles
RefTeamDamage(bs) ==
    SumOver([a \in KeySet(bs) |->
                SumOver([pid \in DOMAIN Get(bs, a).players |-> Get(bs, a).players[pid].damage],
                        DOMAIN Get(bs, a).players)], KeySet(bs))
RefTeamKills(bs) ==
    SumOver([a \in KeySet(bs) |->
                SumOver([pid \in DOMAIN Get(bs, a).players |-> Get(bs, a).players[pid].kills],
                        DOMAIN Get(bs, a).players)], KeySet(bs))
RefTeamPoints(bs) ==
    SumOver([a \in KeySet(bs) |-> RefBattlePoints(Get(bs, a))], KeySet(bs))

\* C11: a calculateTeamData() call leaves behind a result that the next call
\* returns unchanged, and right after a damage or kill feedback event has been
\* applied calculateTeamData() returns the totals of the store with the event
\* in it.
C11_TeamCacheCoherent ==
    [][/\ CalculateTeamData =>
             TeamDataResult(BattleStats', calculationCache')
                 = TeamDataResult(BattleStats, calculationCache)
       /\ (\E now \in Clock : HandlePlayerDamage(MaxDamage, now) \/ HandlePlayerKill(now)) =>
             LET r == TeamDataResult(BattleStats', calculationCache')
             IN /\ r.teamDamage = RefTeamDamage(BattleStats')
                /\ r.teamKills = RefTeamKills(BattleStats')
                /\ r.teamPoints = RefTeamPoints(BattleStats')]_vars

\* the team totals are memoized for the current battle count and count a kill
\* that a feedback event added to a battle still in progress
C11_Witness ==
    /\ Len(BattleStats) \in DOMAIN calculationCache.team
    /\ calculationCache.team[Len(BattleStats)].teamKills > 0
    /\ \E a \in KeySet(BattleStats) :
          /\ Get(BattleStats, a).duration = 0
          /\ \E pid \in DOMAIN Get(BattleStats, a).players :
                Get(BattleStats, a).players[pid].kills > 0

\* C12: the best/worst query is never stale: in every reachable state
\* findBestAndWorstBattle() returns what a fresh computation over the current
\* BattleStats returns (the same arenas and the same point totals).
C12_BestWorstFresh ==
    BestAndWorstResult(BattleStats, calculationCache) = ComputeBestAndWorst(BattleStats)

\* the query was memoized, an arena event then added a battle without deleting
\* the bestWorst_ keys, and the query was memoized again with a decided battle
C12_Witness ==
    /\ KeySet(BattleStats) \in DOMAIN calculationCache.bestWorst
    /\ calculationCache.bestWorst[KeySet(BattleStats)].found
    /\ Cardinality(DOMAIN calculationCache.bestWorst) >= 2

\* the payload carries every battle of the store, in order, with every player's
\* damage, kills and points as the store holds them
BuiltFrom(payload, store) ==
    /\ Len(payload.BattleStats) = Len(store)
    /\ \A i \in 1..Len(store) :
          /\ payload.BattleStats[i].id = store[i].id
          /\ payload.BattleStats[i].battle.win = store[i].battle.win
          /\ payload.BattleStats[i].battle.duration = store[i].battle.duration
          /\ DOMAIN payload.BattleStats[i].battle.players = DOMAIN store[i].battle.players
          /\ \A pid \in DOMAIN store[i].battle.players :
                LET sent == payload.BattleStats[i].battle.players[pid]
                    kept == store[i].battle.players[pid]
                IN sent.damage = kept.damage /\ sent.kills = kept.kills
                   /\ sent.points = kept.points

\* C13: debounce coalescing: the serverDataDebounced calls of one burst (the
\* calls made while the debounce timer is pending) lead to exactly one
\* saveToServer invocation, made when the timer elapses after the last call,
\* and the payload it builds is BattleStats as of the last mutation of the burst.
C13_Coalesced ==
    sync.observed =>
        /\ Len(sync.flights) + (IF sync.timer THEN 1 ELSE 0) = sync.bursts
        /\ sync.timer <=> sync.calls > 0
        /\ \A i \in 1..Len(sync.flights) :
              /\ sync.flights[i].calls >= 1
              /\ sync.hasKey => BuiltFrom(sync.flights[i].payload, sync.flights[i].store)

\* one push answered a burst of at least two feedback events and carries the
\* damage of the burst
C13_Witness ==
    \E i \in 1..Len(sync.flights) :
        /\ sync.hasKey
        /\ sync.flights[i].calls >= 2
        /\ \E k \in 1..Len(sync.flights[i].payload.BattleStats) :
              \E pid \in DOMAIN sync.flights[i].payload.BattleStats[k].battle.players :
                 sync.flights[i].payload.BattleStats[k].battle.players[pid].damage > 0

LastFlight(s) == s.flights[Len(s.flights)]

\* C15: a saveToServer invocation with an access key emits updateStats when the
\* socket is connected and calls saveViaREST with the payload when it is not;
\* when the 3 s timer runs and no acknowledgment has arrived, saveViaREST is
\* called with the same payload; so every invocation has been attempted on at
\* least one channel.
C15_SocketThenRest ==
    /\ [](sync.hasKey =>
            \A i \in 1..Len(sync.flights) :
                sync.flights[i].emitted \/ sync.flights[i].restCalls > 0)
    /\ [][((\E now \in Clock : ServerData(now)) /\ sync.hasKey) =>
               LET f == LastFlight(sync')
               IN IF sync.connected
                  THEN f.emitted /\ f.timer /\ f.restCalls = 0
                  ELSE ~f.emitted /\ f.restCalls = 1 /\ f.rest = "pending"
                       /\ f.restPayload = f.payload]_vars
    /\ [][\A i \in 1..Len(sync.flights) :
             (SaveTimeout(i) /\ sync.flights[i].ack = "waiting") =>
                 (/\ sync'.flights[i].rest = "pending"
                  /\ sync'.flights[i].restCalls = 1
                  /\ sync'.flights[i].restPayload = sync.flights[i].payload)]_vars

\* an emitted push was never acknowledged, its timer ran, and the REST push of
\* the same non-empty payload succeeded
C15_Witness ==
    \E i \in 1..Len(sync.flights) :
        /\ sync.flights[i].emitted
        /\ sync.flights[i].ack = "waiting"
        /\ sync.flights[i].rest = "ok"
        /\ sync.flights[i].restPayload = sync.flights[i].payload
        /\ Len(sync.flights[i].payload.BattleStats) > 0

\* C16: when an emitted push is answered with a status other than 202, the
\* invocation pushes once over REST; checked once both callbacks of the
\* invocation have run: saveViaREST was called exactly once, and a failed REST
\* push is what the caller of saveToServer observes.
C16_NonSuccessRecovered ==
    \A i \in 1..Len(sync.flights) :
        LET f == sync.flights[i]
        IN (f.emitted /\ f.ack = "delivered" /\ f.status # 202 /\ ~f.timer) =>
              /\ f.restCalls = 1
              /\ f.rest = "failed" => f.outcome = "threw"

\* C17: for an invocation over a connected socket, whatever the order of the
\* acknowledgment callback and the 3 s timer callback: saveViaREST is called at
\* most once; it is not called when the acknowledgment ran first; when the
\* timer ran first it is called once, in addition to the emit, and the
\* acknowledgment that runs afterwards leaves saveCallbackReceived unset.
C17_FallbackOnce ==
    \A i \in 1..Len(sync.flights) :
        LET f == sync.flights[i]
        IN f.emitted =>
              /\ f.restCalls <= 1
              /\ f.first = "ack" => f.restCalls = 0 /\ f.saveCallbackReceived
              /\ f.first = "timer" =>
                    f.restCalls = 1 /\ f.fallbackUsed /\ ~f.saveCallbackReceived

\* the timer ran first, the REST fallback completed, and the acknowledgment of
\* the original emit arrived afterwards
C17_Witness ==
    \E i \in 1..Len(sync.flights) :
        /\ sync.flights[i].emitted
        /\ sync.flights[i].first = "timer"
        /\ sync.flights[i].rest = "ok"
        /\ sync.flights[i].ack = "delivered"
        /\ sync.flights[i].status = 202

\* C18: a statsUpdated notification starts a re-pull (a getStats emit) exactly
\* when it carries the client's own access key; a notification that is null,
\* has no key or has another key emits nothing and leaves the store, the cache
\* and the pending requests as they are.
C18_OwnKeyOnly ==
    /\ [](\A i \in 1..Len(pull.log) :
            pull.log[i].requested <=>
                (~pull.log[i].data.isNull /\ pull.log[i].data.key = AccessKey))
    /\ [](\A i \in 1..Len(manager.notices) :
            manager.notices[i].requested <=>
                (~manager.notices[i].data.isNull /\ manager.notices[i].data.key = AccessKey))
    /\ [][\A data \in Notices :
             (HistoryStatsUpdated(data) /\ (data.isNull \/ data.key # AccessKey)) =>
                 (/\ manager'.op = manager.op
                  /\ ManagerState(manager') = ManagerState(manager))]_vars
    /\ [][\A data \in Notices :
             (StatsUpdated(data) /\ (data.isNull \/ data.key # AccessKey)) =>
                 (/\ pull'.pending = pull.pending
                  /\ UNCHANGED <<BattleStats, PlayersInfo, calculationCache, sync>>)]_vars

\* a notification with another key was dropped and one with the own key led to
\* a pull that changed the store
C18_Witness ==
    /\ \E i \in 1..Len(pull.log) : pull.log[i].data.key = "other" /\ ~pull.log[i].requested
    /\ \E i \in 1..Len(pull.log) : pull.log[i].data.key = AccessKey /\ pull.log[i].requested
    /\ Len(pull.ui) = 1
    /\ Len(BattleStats) > 0

\* C19: after a pull started by a notification, eventsCore 'statsUpdated' is
\* emitted only if the serialized BattleStats / PlayersInfo after the
\* reconciliation differ from those before it.
C19_NotifyOnlyIfChanged ==
    \A i \in 1..Len(pull.ui) : pull.ui[i].emitted => pull.ui[i].changed

\* C14: import is all-or-nothing: importData of a payload in which a battle or
\* a player record fails validateBattleData / validatePlayerData sends no
\* request, returns false, and leaves BattleStats, PlayersInfo and the saved
\* state as they were.
C14_ImportAllOrNothing ==
    /\ (manager.op.name = "importData" /\ ~IsValidImportDataStrict(manager.op.input)) =>
            manager.op.requests = 0 /\ ManagerState(manager) = manager.op.before
    /\ \A i \in 1..Len(manager.results) :
          LET r == manager.results[i]
          IN (r.name = "importData" /\ ~IsValidImportDataStrict(r.input)) =>
                r.result = "false" /\ r.requests = 0 /\ ~r.mutated

\* C20: without an access key a network operation sends nothing and its
\* caller observes a failure: saveToServer of CoreService emits nothing, makes
\* no REST call and throws; importData and deleteBattle of the manager send no
\* request and return false.
C20_NoKeyFailsFast ==
    /\ ~sync.hasKey =>
          \A i \in 1..Len(sync.flights) :
              /\ ~sync.flights[i].emitted
              /\ sync.flights[i].restCalls = 0
              /\ sync.flights[i].outcome = "threw"
    /\ ~manager.hasKey =>
          \A i \in 1..Len(manager.results) :
              manager.results[i].requests = 0 /\ manager.results[i].result = "false"

\* every record of the store has numbers for its numeric fields and non-empty
\* strings for its names
Defaulted(bs) ==
    \A i \in 1..Len(bs) :
        /\ bs[i].battle.duration \in Nat
        /\ bs[i].battle.win \in -1..2
        /\ bs[i].battle.mapName # ""
        /\ \A pid \in DOMAIN bs[i].battle.players :
              LET q == bs[i].battle.players[pid]
              IN /\ q.damage \in Nat /\ q.kills \in Nat /\ q.points \in Nat
                 /\ q.name # "" /\ q.vehicle # ""

\* C21: handleServerData tolerates malformed server data: no call on a
\* snapshot with null entries, missing fields or wrong-typed numeric fields
\* throws, and the records of the store have their numeric fields defaulted to
\* numbers and their strings to the sentinels.
C21_MalformedTolerated ==
    /\ pull.thrown = 0
    /\ manager.thrown = 0
    /\ Defaulted(BattleStats)
    /\ Defaulted(manager.BattleStats)

\* C22: no exception or rejected promise escapes uncaught: a saveViaREST
\* failure is always caught (by serverData's try/catch, or inside the timer
\* callback), and no getStats callback ends in an exception.
C22_NothingEscapes ==
    /\ \A i \in 1..Len(sync.flights) : ~sync.flights[i].uncaught
    /\ pull.thrown = 0

\* C23: a battle-result event for an arena that has no local record is
\* dropped: BattleStats, PlayersInfo, the calculation cache, curentPlayerId,
\* needToAddPlayers and curentArenaId are unchanged and no sync is scheduled.
C23_UnknownArenaDropped ==
    [][\A result \in EventResults :
          (result.arenaUniqueID \notin KeySet(BattleStats) /\ HandleBattleResult(result))
              => /\ UNCHANGED <<BattleStats, PlayersInfo, calculationCache, sync>>
                 /\ UNCHANGED <<curentPlayerId, curentArenaId>>
                 /\ tracker'.needToAddPlayers = tracker.needToAddPlayers]_vars

\* C24: battle records are only destroyed by an explicit clear or delete: no
\* notification, getStats reply or reconciliation removes an arena from
\* CoreService's BattleStats, and an arena the BattleDataManager held when its
\* statsUpdated handler started a reconciliation is still there when the
\* reconciliation has completed.
C24_OnlyClearOrDeleteDestroys ==
    /\ [][KeySet(BattleStats) \subseteq KeySet(BattleStats')]_vars
    /\ [][(manager.op.name = "forceLoadFromServer" /\ manager'.op.name = "idle")
            => KeySet(manager.op.before.BattleStats) \subseteq KeySet(manager'.BattleStats)]_vars

\* the arenas of the store whose duration is 0
InProgress(bs) == {bs[i].id : i \in {j \in 1..Len(bs) : bs[j].battle.duration = 0}}

\* C25: the battle in progress is unique: at most one arena of BattleStats has
\* duration 0, getCurrentBattleId() is that arena, and it is null exactly when
\* no arena has duration 0.
C25_UniqueCurrentBattle ==
    /\ Cardinality(InProgress(BattleStats)) <= 1
    /\ GetCurrentBattleId(BattleStats) = NoArena <=> InProgress(BattleStats) = {}
    /\ InProgress(BattleStats) # {} => InProgress(BattleStats) = {GetCurrentBattleId(BattleStats)}

\* win as the teams of a battle result resolve it
WinOf(result) ==
    IF result.winnerTeam = 0 THEN 2
    ELSE IF result.team = result.winnerTeam THEN 1 ELSE 0

\* C26 as stated: after a battle-result event for a known arena win is 2 if
\* the winning team is 0, 1 if the local player's team equals the winning
\* team, 0 otherwise, whatever the local player's team is.
C26_WinResolvedAnyTeam ==
    [][\A result \in EventResults :
          (result.arenaUniqueID \in KeySet(BattleStats) /\ HandleBattleResult(result))
              => Get(BattleStats', result.arenaUniqueID).win = WinOf(result)]_vars

\* C26: after a battle-result event for a known arena in which the local
\* player's team is not 0, win is 2 if the winning team is 0, 1 if the local
\* player's team equals the winning team, 0 otherwise, and so is not -1.
C26_WinResolved ==
    [][\A result \in EventResults :
          (result.arenaUniqueID \in KeySet(BattleStats) /\ result.team # 0
              /\ HandleBattleResult(result))
              => /\ Get(BattleStats', result.arenaUniqueID).win = WinOf(result)
                 /\ Get(BattleStats', result.arenaUniqueID).win # -1]_vars

\* a battle that ended in a draw has been resolved
C26_Witness ==
    /\ LiveArena \in KeySet(BattleStats)
    /\ Get(BattleStats, LiveArena).duration > 0
    /\ Get(BattleStats, LiveArena).win = 2

C28_ArenaSyncOnlyIfRegistered ==
    [][\A now \in Clock :
          (HandleArena(LiveArena, "Prokhorovka", now)
              /\ ~IsExistsPlayerRecord(PlayersInfo, curentPlayerId))
              => sync'.calls = sync.calls /\ sync'.timer = sync.timer]_vars

\* C29: a damage feedback event changes state only when an arena and a player
\* are current and the current player is registered in PlayersInfo; then the
\* current player's damage in the current arena grows by the event's damage
\* and the points by damage * POINTS_PER_DAMAGE, the cache is emptied and one
\* more debounced sync is scheduled, while every other player of the arena,
\* every other arena and PlayersInfo stay as they were.
C29_DamageFrame ==
    [][\A now \in Clock :
          HandlePlayerDamage(MaxDamage, now)
              => /\ curentArenaId # NoArena /\ curentPlayerId # NoPlayer
                 /\ curentPlayerId \in DOMAIN PlayersInfo
                 /\ curentArenaId \in KeySet(BattleStats')
                 /\ LET known == curentArenaId \in KeySet(BattleStats)
                        old == IF known THEN Get(BattleStats, curentArenaId).players
                               ELSE NoPlayers
                        new == Get(BattleStats', curentArenaId).players
                        was == IF curentPlayerId \in DOMAIN old THEN old[curentPlayerId]
                               ELSE [damage |-> 0, points |-> 0]
                    IN /\ new[curentPlayerId].damage = was.damage + MaxDamage
                       /\ new[curentPlayerId].points
                              = was.points + MaxDamage * POINTS_PER_DAMAGE
                       /\ DOMAIN new = DOMAIN old \cup {curentPlayerId}
                       /\ \A q \in DOMAIN old \ {curentPlayerId} : new[q] = old[q]
                 /\ KeySet(BattleStats') = KeySet(BattleStats) \cup {curentArenaId}
                 /\ \A a \in KeySet(BattleStats) \ {curentArenaId} :
                       Get(BattleStats', a) = Get(BattleStats, a)
                 /\ PlayersInfo' = PlayersInfo
                 /\ calculationCache' = EmptyCache
                 /\ sync'.calls = sync.calls + 1 /\ sync'.timer]_vars

\* damage has been added to the current player in an arena that holds another
\* player too, next to a battle of an earlier session
C29_Witness ==
    /\ curentArenaId = LiveArena
    /\ LiveArena \in KeySet(BattleStats) /\ "c" \in KeySet(BattleStats)
    /\ curentPlayerId \in DOMAIN Get(BattleStats, LiveArena).players
    /\ Cardinality(DOMAIN Get(BattleStats, LiveArena).players) = 2
    /\ Get(BattleStats, LiveArena).players[curentPlayerId].damage = MaxDamage
    /\ Get(BattleStats, LiveArena).duration = 0
    /\ sync.timer /\ sync.atLast = BattleStats

\* the hangar handler, past its sleep, registers the local player and goes on
\* to the debounced sync
Registers ==
    /\ PlayersInfo' = Assign(PlayersInfo, SdkPlayerId, SdkPlayerName)
    /\ sync'.hangar = sync.hangar + 1
\* the hangar handler, past its sleep, returns without doing either
Skips == PlayersInfo' = PlayersInfo /\ sync' = sync

\* C30 as stated: on hangar entry with registration pending the local player
\* is registered and a debounced sync scheduled, unless the client is in a
\* platoon and more than 3 players are tracked, or is not in a platoon and
\* more than one player is tracked.
C30_SquadGuardMoreThanOne ==
    [][HangarStatusWakes
          => LET n == Cardinality(DOMAIN PlayersInfo)
                 guard == \/ tracker.isInPlatoon /\ n > PlatoonThreshold
                          \/ ~tracker.isInPlatoon /\ n > 1
             IN IF guard THEN Skips ELSE Registers]_vars

\* C30: on hangar entry with registration pending the local player is
\* registered and a debounced sync scheduled, unless the client is in a
\* platoon and more than 3 players are tracked, or is not in a platoon and at
\* least one player is tracked; the sync is scheduled when the random delay
\* that follows the registration is over.
C30_SquadGuard ==
    /\ [][HangarStatusWakes
            => LET n == Cardinality(DOMAIN PlayersInfo)
                   guard == \/ tracker.isInPlatoon /\ n > PlatoonThreshold
                            \/ ~tracker.isInPlatoon /\ n >= 1
               IN IF guard THEN Skips ELSE Registers]_vars
    /\ [][HangarStatusResumes => sync'.calls = sync.calls + 1 /\ sync'.timer]_vars

\* in a platoon with three players tracked the local player was registered
\* as the fourth, and the sync that follows has been scheduled
C30_Witness ==
    /\ tracker.seen # <<>>
    /\ tracker.seen.isInPlatoon /\ tracker.seen.tracked = PlatoonThreshold
    /\ tracker.seen.registered
    /\ PlayersInfo[SdkPlayerId] = SdkPlayerName
    /\ sync.hangar = 0 /\ sync.timer

\* C31: once a battle result has been applied to an arena (duration > 0),
\* damage and kill feedback events no longer modify the player records of
\* that arena.
C31_ResolvedNotModified ==
    [][\A now \in Clock :
          (HandlePlayerDamage(MaxDamage, now) \/ HandlePlayerKill(now))
              => \A a \in KeySet(BattleStats) :
                    Get(BattleStats, a).duration > 0
                        => Get(BattleStats', a).players = Get(BattleStats, a).players]_vars

\* C32: event handlers do not race: a hangar-status handler that was already
\* suspended in its delay when handleArena set curentArenaId leaves
\* curentArenaId and curentPlayerId as the arena event set them, so the
\* feedback of that battle is still recorded.
C32_HangarDoesNotOvertake ==
    [][(HangarStatusWakes /\ tracker.overtaken > 0)
          => /\ curentArenaId' = curentArenaId
             /\ curentPlayerId' = curentPlayerId
             /\ IsValidBattleState']_vars

\* C33: after handleBattleResult has set win and overwritten the local
\* player's stats of an arena, calculateTeamData(), calculatePlayerData of
\* the local player and calculateBattleData of the arena return the totals of
\* the updated store, whatever was memoized before.
C33_ResultInvalidatesAggregates ==
    [][\A result \in Results :
          (/\ result.arenaUniqueID \in KeySet(BattleStats)
           /\ result.hasVehicle
           /\ result.accountDBID \in DOMAIN Get(BattleStats, result.arenaUniqueID).players
           /\ HandleBattleResult(result))
              => /\ TeamDataResult(BattleStats', calculationCache')
                       = ComputeTeamData(BattleStats')
                 /\ PlayerDataResult(BattleStats', calculationCache', result.accountDBID)
                       = ComputePlayerData(BattleStats', result.accountDBID)
                 /\ BattleDataResult(BattleStats', calculationCache', result.arenaUniqueID)
                       = ComputeBattleData(BattleStats', result.arenaUniqueID)]_vars

\* every aggregate query answers with the totals of the store
AggregatesFresh(bs, cache) ==
    /\ TeamDataResult(bs, cache) = ComputeTeamData(bs)
    /\ PlayerDataResult(bs, cache, SdkPlayerId) = ComputePlayerData(bs, SdkPlayerId)
    /\ \A arenaId \in ArenaIds :
          BattleDataResult(bs, cache, arenaId) = ComputeBattleData(bs, arenaId)

\* C34: in the history view's CoreService, once the getStats response of a
\* loadFromServer has been reconciled, calculateTeamData, calculatePlayerData
\* and calculateBattleData return the totals of the reconciled store, whatever
\* was asked between the request and the response.
C34_LoadInvalidatesAggregates ==
    [][(pull.loading = "socket" /\ pull'.loading = "none" /\ pull'.thrown = pull.thrown)
          => AggregatesFresh(BattleStats', calculationCache')]_vars

\* C35: a current player registered in PlayersInfo before handleServerData of
\* a successful snapshot is registered after it, also when the snapshot's
\* PlayerInfo omits the player.
C35_RegistrationSurvives ==
    [][\A data \in LiveSnapshots, now \in Clock :
          (/\ data.success
           /\ IsExistsPlayerRecord(PlayersInfo, curentPlayerId)
           /\ ServerPush(data, now, FALSE))
              => IsExistsPlayerRecord(PlayersInfo', curentPlayerId)]_vars

\* the store after handleServerData of the payload saveToServer builds from it
RoundTrip(now) ==
    HandleServerData(BattleStats, PlayersInfo, calculationCache,
                     EchoedSnapshot(DataToSend(BattleStats, PlayersInfo, curentPlayerId, now)),
                     now)

\* C36: reconciling through handleServerData the payload that saveToServer
\* builds from the current state leaves BattleStats and PlayersInfo unchanged.
C36_RoundTripUnchanged ==
    \A now \in DateNow :
        /\ RoundTrip(now).BattleStats = BattleStats
        /\ RoundTrip(now).PlayersInfo = PlayersInfo

C38_FailedDeleteKeepsData ==
    \A i \in 1..Len(manager.results) :
        LET r == manager.results[i]
        IN (r.name = "deleteBattle" /\ r.result = "false") => ~r.mutated

\* C39: clearServerData empties BattleStats and PlayersInfo and clears the
\* calculation cache only when the backend acknowledges the clear with success
\* (socket status 200, or REST response ok with success): the call itself and
\* every other answer leave the store and the cache as they are, and the
\* acknowledged answer leaves them empty.
C39_ClearOnlyOnSuccess ==
    [][pull.clears' # pull.clears =>
        LET acked == \E i \in 1..Len(pull.clears) :
                        /\ pull.clears[i].state = "waiting"
                        /\ pull.clears'[i].state = "done"
                        /\ \/ pull.clears'[i].channel = "socket" /\ pull.clears'[i].status = 200
                           \/ pull.clears'[i].channel = "rest" /\ pull.clears'[i].ok
                                 /\ pull.clears'[i].success
        IN IF acked
           THEN BattleStats' = <<>> /\ PlayersInfo' = EmptyMap
                    /\ calculationCache' = EmptyCache
           ELSE UNCHANGED <<BattleStats, PlayersInfo, calculationCache>>]_vars

\* a clear was refused by the backend while the store and the cache held
\* something, and a clear was acknowledged
C39_Witness ==
    /\ \E i \in 1..Len(pull.clears) :
          pull.clears[i].state = "done" /\ pull.clears[i].status = 500
    /\ \E i \in 1..Len(pull.clears) :
          pull.clears[i].state = "done" /\ pull.clears[i].status = 200
    /\ Len(BattleStats) > 0

\* C40: SquadWidget constructs CoreService and UIService only after
\* checkAccessKey has returned true; when it returns false (no key in
\* the URL, 401, non-OK response, success false, network error) access denied
\* is shown, neither service is constructed and localStorage holds no accessKey.
C40_ServicesOnlyWithAccess ==
    /\ (widget.coreService \/ widget.uiService) => widget.hasAccess = "true"
    /\ widget.hasAccess = "false" =>
          /\ widget.denied
          /\ ~widget.coreService /\ ~widget.uiService
          /\ widget.accessKey = ""
    /\ ~widget.coreService => BattleStats = <<>> /\ widget.loads = 0

\* the backend answered success false for the key of the URL while
\* localStorage still held a key of an earlier visit
C40_Witness ==
    /\ widget.hasAccess = "false" /\ widget.outcome = "successFalse"
    /\ widget.earlier # ""

====
